---------------------------- MODULE Spec2Model ----------------------------
(***************************************************************************)
(* A model of the path tracer nya3jp/raytracing: the recursive radiance    *)
(* estimator trace_ray, the sampler family used for importance sampling,   *)
(* and the bounding volume hierarchy built by Objects::new.                *)
(*                                                                         *)
(* f64 values are modelled as extended rationals <<n, d>>: a finite value  *)
(* is n/d in lowest terms with d > 0, +inf is <<1, 0>>, -inf is <<-1, 0>>  *)
(* and NaN is <<0, 0>>.  The arithmetic follows IEEE 754 on the special    *)
(* values (0/0, inf - inf, inf * 0 are NaN; every comparison with NaN is   *)
(* false); rounding and the sign of zero are not modelled.                 *)
(***************************************************************************)
EXTENDS Integers, Sequences, FiniteSets, TLC

VARIABLES
    \* ---- trace_ray (engine/src/renderer.rs) ----
    world,        \* the scene: background, whether a light exists, important shape
    pc,           \* position of the trace: "call", "ret", "done", "panic", "idle"
    limit,        \* depth budget of the trace_ray call being entered / returned from
    limit0,       \* depth budget of the outermost call
    ray,          \* direction of the ray of the current call
    stack,        \* pending callers: emit + albedo * (weight * <callee>)
    ret,          \* value returned by the call that just returned
    queries,      \* number of world.object.hit calls made by this trace
    bounce,       \* the last scattering event (samplers, densities, weight)
    \* ---- MixedSampler (rust/src/sampler.rs) ----
    mix,          \* the MixedSampler under test
    call,         \* the last method call on it and what it returned
    \* ---- Objects / BVH (engine/src/object.rs) ----
    objects,      \* the input objects of Objects::new
    bvh,          \* the tree Objects::new returned: <<>> or <<tree>>
    construction, \* how Objects::new ended: "none", "built" or "panicked"
    query,        \* the last ray query and its results
    \* ---- pure functions (rust/src/geom.rs, rust/src/shape.rs) ----
    fn,           \* the function applied last, "none" before any
    args,         \* the arguments it is applied to
    out,          \* what it returned
    \* ---- Renderer (engine/src/renderer.rs) ----
    samples,      \* Renderer.samples
    sums,         \* Renderer.sums, one colour per pixel
    passes,       \* the colours each completed trace() added, pass by pass
    image,        \* what the last encode() returned: <<>> or <<bytes>>
    \* ---- one call of Renderer::trace, unit by unit ----
    views,        \* what the rays through each pixel meet
    phase,        \* "idle", "sampling", "collected"; "pixel", "rendered"
    rngs,         \* Renderer.rngs: <<>> while trace() holds them
    taken,        \* the local vector rngs of trace(): <<>> outside it
    unit,         \* the position and the locals of each parallel closure
    collected,    \* the vector colors collect() returned: <<>> before it
    cursor,       \* the pixel the per-sample renderer is at
    \* ---- render() and its Writer (engine/src/renderer.rs) ----
    writer,       \* the Writer render() was given
    written,      \* the calls writer.write(n, pixels) made so far
    outcome       \* "none", "running", "ok" or "err"

traceVars == <<world, pc, limit, limit0, ray, stack, ret, queries, bounce>>
mixVars   == <<mix, call>>
bvhVars   == <<objects, bvh, construction, query>>
fnVars    == <<fn, args, out>>
renderVars == <<samples, sums, passes, image>>
passVars  == <<views, phase, rngs, taken, unit, collected, cursor>>
writeVars == <<writer, written, outcome>>
vars      == <<world, pc, limit, limit0, ray, stack, ret, queries, bounce,
               mix, call, objects, bvh, construction, query, fn, args, out,
               samples, sums, passes, image,
               views, phase, rngs, taken, unit, collected, cursor,
               writer, written, outcome>>

\* What the steps of one part of the program leave alone.
notTrace == <<mixVars, bvhVars, fnVars, renderVars, passVars, writeVars>>
notMix   == <<traceVars, bvhVars, fnVars, renderVars, passVars, writeVars>>
notBvh   == <<traceVars, mixVars, fnVars, renderVars, passVars, writeVars>>
notFn    == <<traceVars, mixVars, bvhVars, renderVars, passVars, writeVars>>
notRender == <<traceVars, mixVars, bvhVars, fnVars, passVars, writeVars>>
notPass   == <<traceVars, mixVars, bvhVars, fnVars, writeVars>>
notWrite  == <<traceVars, mixVars, bvhVars, fnVars, passVars>>

-----------------------------------------------------------------------------
(*                                f64                                      *)

NaN  == <<0, 0>>
PInf == <<1, 0>>
NInf == <<-1, 0>>
Zero == <<0, 1>>
One  == <<1, 1>>

Abs(i) == IF i < 0 THEN -i ELSE i
Sgn(i) == IF i < 0 THEN -1 ELSE IF i > 0 THEN 1 ELSE 0

RECURSIVE GCD(_, _)
GCD(a, b) == IF b = 0 THEN a ELSE GCD(b, a % b)

\* n/d in lowest terms; d = 0 gives the special value of n's sign.
Norm(n, d) ==
    IF d = 0 THEN <<Sgn(n), 0>>
    ELSE LET g == GCD(Abs(n), d) IN <<n \div g, d \div g>>

F(i) == <<i, 1>>
Q(n, d) == Norm(n, d)

IsNaN(a) == a = NaN
IsFinite(a) == a[2] # 0

FNeg(a) == <<-a[1], a[2]>>

FAdd(a, b) ==
    IF a[2] = 0 /\ b[2] = 0
    THEN (IF a = b THEN a ELSE NaN)
    ELSE Norm(a[1] * b[2] + b[1] * a[2], a[2] * b[2])

FSub(a, b) == FAdd(a, FNeg(b))

FMul(a, b) == Norm(a[1] * b[1], a[2] * b[2])

FRecip(a) ==
    IF a[1] > 0 THEN <<a[2], a[1]>>
    ELSE IF a[1] < 0 THEN <<-a[2], -a[1]>>
    ELSE IF a[2] = 0 THEN NaN ELSE PInf

FDiv(a, b) == FMul(a, FRecip(b))

FLt(a, b) ==
    /\ ~IsNaN(a)
    /\ ~IsNaN(b)
    /\ IF a[2] = 0 /\ b[2] = 0 THEN a[1] < b[1]
       ELSE a[1] * b[2] < b[1] * a[2]

FEq(a, b) == ~IsNaN(a) /\ ~IsNaN(b) /\ a = b
FLe(a, b) == FLt(a, b) \/ FEq(a, b)
FGt(a, b) == FLt(b, a)
FGe(a, b) == FLe(b, a)

\* f64::min and f64::max return the other operand when one is NaN.
FMin(a, b) == IF IsNaN(a) THEN b ELSE IF IsNaN(b) THEN a
              ELSE IF FLt(b, a) THEN b ELSE a
FMax(a, b) == IF IsNaN(a) THEN b ELSE IF IsNaN(b) THEN a
              ELSE IF FLt(a, b) THEN b ELSE a

-----------------------------------------------------------------------------
(*                               Color                                     *)

Color(r, g, b) == <<r, g, b>>
BLACK == Color(Zero, Zero, Zero)
WHITE == Color(One, One, One)

ColorAdd(c1, c2) == <<FAdd(c1[1], c2[1]), FAdd(c1[2], c2[2]), FAdd(c1[3], c2[3])>>
ColorMul(c1, c2) == <<FMul(c1[1], c2[1]), FMul(c1[2], c2[2]), FMul(c1[3], c2[3])>>
ColorScale(m, c) == <<FMul(c[1], m), FMul(c[2], m), FMul(c[3], m)>>

ColorHasNaN(c) == \E i \in 1..3 : IsNaN(c[i])
ColorIsFinite(c) == \A i \in 1..3 : IsFinite(c[i])


-----------------------------------------------------------------------------
(*                        Option and directions                            *)

\* Unit directions used by the model (Vec3Unit with integer components).
NoDir == <<0, 0, 0>>
Dirs  == {<<0, 1, 0>>, <<1, 0, 0>>}

\* Option<Vec3Unit>, plus the outcome of a panic!().
None      == [tag |-> "None",  val |-> NoDir]
Some(d)   == [tag |-> "Some",  val |-> d]
Panic     == [tag |-> "Panic", val |-> NoDir]

-----------------------------------------------------------------------------
(*                 Samplers (rust/src/sampler.rs)                          *)
(* A sampler value carries, in p, the density its probability() returns   *)
(* for the direction the trace draws: the geometry that decides it is not  *)
(* modelled, so p is an input of the step that builds the sampler.         *)

NoSampler == [kind |-> "None", dir |-> NoDir, radius |-> Zero, p |-> Zero, kids |-> <<>>]

LambertianSampler(p) ==
    [kind |-> "Lambertian", dir |-> NoDir, radius |-> Zero, p |-> p, kids |-> <<>>]

RectangleSampler(p) ==
    [kind |-> "Rectangle", dir |-> NoDir, radius |-> Zero, p |-> p, kids |-> <<>>]

ConstantSampler(d) ==
    [kind |-> "Constant", dir |-> d, radius |-> Zero, p |-> PInf, kids |-> <<>>]

\* center is kept as the direction center.unit().
SphereSampler(center, radius, p) ==
    [kind |-> "Sphere", dir |-> center, radius |-> radius, p |-> p, kids |-> <<>>]

\* RotateSampler::new(axis, theta, sampler); rot is <<cos theta, sin theta>>.
RotateSampler(axis, rot, sampler) ==
    [kind |-> "Rotate", dir |-> NoDir, radius |-> Zero, p |-> sampler.p,
     kids |-> <<sampler>>, axis |-> axis, rot |-> rot]

IsSome(s) == s.kind # "None"

\* filter_map(|sampler| sampler.constant()).collect_vec(), given the
\* children's results in order.
RECURSIVE CollectSome(_)
CollectSome(rs) ==
    IF Len(rs) = 0 THEN <<>>
    ELSE IF Head(rs).tag = "Some" THEN <<Head(rs).val>> \o CollectSome(Tail(rs))
    ELSE CollectSome(Tail(rs))

\* match v.len() { 0 => None, 1 => Some(v[0]), _ => panic!(...) }
MixedSampler_constant_MutFirst(rs) ==
    IF \E i \in 1..Len(rs) : rs[i].tag = "Panic" THEN Panic
    ELSE LET v == CollectSome(rs) IN
         IF Len(v) = 0 THEN None ELSE Some(v[1])

MixedSampler_constant(rs) ==
    IF \E i \in 1..Len(rs) : rs[i].tag = "Panic" THEN Panic
    ELSE LET v == CollectSome(rs) IN
         IF Len(v) = 0 THEN None
         ELSE IF Len(v) = 1 THEN Some(v[1])
         ELSE Panic

RECURSIVE constant(_)
constant(s) ==
    CASE s.kind = "Lambertian" -> None
      [] s.kind = "Rectangle"  -> None
      [] s.kind = "Constant"   -> Some(s.dir)
      [] s.kind = "Sphere"     -> IF FEq(s.radius, Zero) THEN Some(s.dir) ELSE None
      [] s.kind = "Rotate"     -> constant(s.kids[1])
      [] s.kind = "Mixed"      ->
            MixedSampler_constant([i \in 1..Len(s.kids) |-> constant(s.kids[i])])

\* The number of children whose constant() is Some.
ConstantKids(samplers) ==
    Cardinality({i \in 1..Len(samplers) : constant(samplers[i]).tag = "Some"})

\* What a constructor that panicked leaves behind: no sampler was built.
PanickedSampler ==
    [kind |-> "Panicked", dir |-> NoDir, radius |-> Zero, p |-> Zero, kids |-> <<>>]

\* A constructor that rejects two or more constant children.
MixedSampler_new_MutValidating(samplers) ==
    IF ConstantKids(samplers) >= 2 THEN PanickedSampler
    ELSE [kind |-> "Mixed", dir |-> NoDir, radius |-> Zero, p |-> Zero,
          kids |-> samplers]

\* MixedSampler::new: samplers.into_iter().collect(), nothing else.
MixedSampler_new(samplers) ==
    [kind |-> "Mixed", dir |-> NoDir, radius |-> Zero, p |-> Zero, kids |-> samplers]

\* Iterator::sum::<f64>(): a left fold from 0.0.
RECURSIVE FSumFrom(_, _)
FSumFrom(acc, xs) ==
    IF Len(xs) = 0 THEN acc ELSE FSumFrom(FAdd(acc, Head(xs)), Tail(xs))
FSum(xs) == FSumFrom(Zero, xs)

RECURSIVE probability(_)
probability(s) ==
    CASE s.kind = "Constant" -> PInf
      [] s.kind = "Rotate"   -> probability(s.kids[1])
      [] s.kind = "Mixed"    ->
            FDiv(FSum([i \in 1..Len(s.kids) |-> probability(s.kids[i])]),
                 F(Len(s.kids)))
      [] OTHER               -> s.p

\* The directions sample() can return: samplers.choose(rng).unwrap().sample(rng)
\* for a mixture, the fixed direction for a ConstantSampler.
RECURSIVE sample(_)
sample(s) ==
    CASE s.kind = "Constant" -> {s.dir}
      [] s.kind = "Sphere" /\ FEq(s.radius, Zero) -> {s.dir}
      [] s.kind = "Mixed"    -> UNION {sample(s.kids[i]) : i \in 1..Len(s.kids)}
      [] OTHER               -> Dirs

-----------------------------------------------------------------------------
(*        Materials (engine/src/material.rs) and the scene                 *)

Scatter(albedo, emit, sampler) == [albedo |-> albedo, emit |-> emit, sampler |-> sampler]

\* Texture colours of the modelled scenes: a grey albedo and a light's radiance.
Grey     == Color(Q(1, 2), Q(1, 2), Q(1, 2))
Radiance == Color(F(7), F(7), F(7))

Lambertian_scatter(texture, p) ==
    Scatter(texture, BLACK, LambertianSampler(p))

\* reflected is reflect(ray.dir, hit.normal).
Metal_scatter(texture, fuzz, reflected, p) ==
    Scatter(texture, BLACK, SphereSampler(reflected, fuzz, p))

Dielectric_scatter(new_dir) ==
    Scatter(WHITE, BLACK, ConstantSampler(new_dir))

\* A light that reflects instead of emitting (albedo and emit swapped).
DiffuseLight_scatter_MutSwapped(texture) ==
    Scatter(texture, BLACK, NoSampler)

DiffuseLight_scatter(texture) ==
    Scatter(BLACK, texture, NoSampler)

Fog_scatter(color, p) ==
    Scatter(color, BLACK, SphereSampler(NoDir, One, p))

\* Densities a stochastic sampler's probability() returns for a drawn
\* direction: 0.0 (the explicit `return 0.0` branches, reached for a drawn
\* direction when rounding puts it on the edge of the support) or a positive
\* finite value.
Densities == {Zero, Q(1, 4)}

\* The Scatter values world.object.hit can return in scene w: one per
\* material of the scene and per value of what the material reads (the
\* reflected or refracted direction, the density of the drawn direction).
Scatters(w) ==
    (IF "Lambertian" \in w.materials
     THEN {Lambertian_scatter(Grey, p) : p \in Densities} ELSE {})
    \cup (IF "Metal" \in w.materials
          THEN {Metal_scatter(Grey, Q(1, 2), <<1, 0, 0>>, p) : p \in Densities}
               \cup {Metal_scatter(Grey, Zero, r, Zero) : r \in Dirs}
          ELSE {})
    \cup (IF "Dielectric" \in w.materials
          THEN {Dielectric_scatter(nd) : nd \in Dirs} ELSE {})
    \cup (IF "DiffuseLight" \in w.materials
          THEN {DiffuseLight_scatter(Radiance)} ELSE {})
    \cup (IF "Fog" \in w.materials
          THEN {Fog_scatter(Grey, p) : p \in Densities} ELSE {})

\* Background::color
Background_color(background, d) ==
    IF background = "Sky"
    THEN LET t == FMul(Q(1, 2), FAdd(F(d[2]), One)) IN
         ColorAdd(ColorScale(FSub(One, t), WHITE),
                  ColorScale(t, Color(Q(1, 2), Q(7, 10), One)))
    ELSE BLACK

\* Shape::sampler of the important shape, from the hit point.  ps are the
\* densities of the stochastic samplers it builds.
Shape_sampler(shape, ps) ==
    CASE shape = "Empty"       -> NoSampler
      [] shape = "Sphere"      -> SphereSampler(<<1, 0, 0>>, One, ps[1])
      [] shape = "PointSphere" -> SphereSampler(<<1, 0, 0>>, Zero, Zero)
      [] shape = "Rectangle"   -> RectangleSampler(ps[1])
      [] shape = "DegenerateRectangle" -> NoSampler
      [] shape = "Union"       ->
            MixedSampler_new(<<SphereSampler(<<1, 0, 0>>, One, ps[1]),
                               RectangleSampler(ps[2])>>)

ImportantShapes ==
    {"Empty", "Sphere", "PointSphere", "Rectangle", "DegenerateRectangle", "Union"}

\* Renderer::new: the important shape the trace uses.
Renderer_important(w) ==
    IF w.importance_sampling THEN w.important_shape ELSE "Empty"

-----------------------------------------------------------------------------
(*              trace_ray (engine/src/renderer.rs:19-69)                   *)

\* Depth budget Renderer::trace passes to trace_ray.
CameraLimit == 50
\* Largest budget explored in the scenes with many materials.
MaxLimit == 2

\* What the last step of the trace did.  event is "cutoff", "miss",
\* "terminal", "scatter" (recursed), "zero" (weight == 0.0), "panic" or
\* "return"; density is trace_sampler.probability(new_dir); contribution is
\* the value the scattering closure returned, known at "zero" and "return".
NoBounce ==
    [event |-> "none", scatter_sampler |-> NoSampler, important_sampler |-> NoSampler,
     trace_sampler |-> NoSampler, emit |-> BLACK, albedo |-> BLACK,
     new_dir |-> NoDir, weight |-> Zero, density |-> Zero, sampled |-> FALSE,
     contribution |-> BLACK, callee |-> BLACK]

\* if limit <= 0
DepthExhausted_MutOffByOne(l) == l < 0

DepthExhausted(l) == l <= 0

\* the budget of the recursive call: limit - 1
NextLimit(l) == l - 1

\* let mut trace_sampler = scatter_sampler.clone();
\* if let Some(important_sampler) = important.sampler(..) { trace_sampler = Mixed.. }
TraceSampler_MutNeverMix(scatter_sampler, important_sampler) ==
    scatter_sampler

TraceSampler(scatter_sampler, important_sampler) ==
    IF IsSome(important_sampler)
    THEN MixedSampler_new(<<scatter_sampler, important_sampler>>)
    ELSE scatter_sampler

\* scatter_sampler.probability(new_dir) / trace_sampler.probability(new_dir)
Weight(scatter_sampler, trace_sampler) ==
    FDiv(probability(scatter_sampler), probability(trace_sampler))

\* hit.scatter.emit + hit.scatter.albedo * contribution
Combine(emit, albedo, contribution) ==
    ColorAdd(emit, ColorMul(albedo, contribution))

\* if limit <= 0 { return Color::BLACK; }
TraceCutoff ==
    /\ pc = "call"
    /\ DepthExhausted(limit)
    /\ ret' = BLACK
    /\ pc' = "ret"
    /\ bounce' = [NoBounce EXCEPT !.event = "cutoff"]
    /\ UNCHANGED <<world, limit, limit0, ray, stack, queries>>
    /\ UNCHANGED notTrace

\* world.object.hit(..) is None: world.background.color(ray)
TraceMiss ==
    /\ pc = "call"
    /\ ~DepthExhausted(limit)
    /\ queries' = queries + 1
    /\ ret' = Background_color(world.background, ray)
    /\ pc' = "ret"
    /\ bounce' = [NoBounce EXCEPT !.event = "miss"]
    /\ UNCHANGED <<world, limit, limit0, ray, stack>>
    /\ UNCHANGED notTrace

\* A hit whose scatter has no sampler: emit + albedo * Color::BLACK.
TraceTerminal ==
    /\ pc = "call"
    /\ ~DepthExhausted(limit)
    /\ \E sc \in Scatters(world) :
         /\ ~IsSome(sc.sampler)
         /\ queries' = queries + 1
         /\ ret' = Combine(sc.emit, sc.albedo, BLACK)
         /\ pc' = "ret"
         /\ bounce' = [NoBounce EXCEPT !.event = "terminal",
                                       !.emit = sc.emit, !.albedo = sc.albedo]
    /\ UNCHANGED <<world, limit, limit0, ray, stack>>
    /\ UNCHANGED notTrace

\* A hit whose scatter has a sampler: build the trace sampler, take its
\* constant direction or draw one, weigh, and recurse with limit - 1.
TraceScatter ==
    /\ pc = "call"
    /\ ~DepthExhausted(limit)
    /\ \E sc \in Scatters(world), ps \in [1..2 -> Densities] :
         /\ IsSome(sc.sampler)
         /\ LET scatter_sampler   == sc.sampler
                important_sampler == Shape_sampler(Renderer_important(world), ps)
                trace_sampler     == TraceSampler(scatter_sampler, important_sampler)
                c                 == constant(trace_sampler)
                b == [NoBounce EXCEPT !.scatter_sampler = scatter_sampler,
                                      !.important_sampler = important_sampler,
                                      !.trace_sampler = trace_sampler,
                                      !.emit = sc.emit, !.albedo = sc.albedo]
            IN
            /\ queries' = queries + 1
            /\ IF c.tag = "Panic"
               THEN /\ pc' = "panic"
                    /\ bounce' = [b EXCEPT !.event = "panic"]
                    /\ UNCHANGED <<limit, ray, stack, ret>>
               ELSE \E new_dir \in (IF c.tag = "Some" THEN {c.val}
                                    ELSE sample(trace_sampler)) :
                      LET weight == IF c.tag = "Some" THEN One
                                    ELSE Weight(scatter_sampler, trace_sampler)
                          density == IF c.tag = "Some" THEN PInf
                                     ELSE probability(trace_sampler)
                          bb == [b EXCEPT !.new_dir = new_dir, !.weight = weight,
                                          !.density = density,
                                          !.sampled = (c.tag = "None")]
                      IN
                      IF FEq(weight, Zero)
                      THEN /\ ret' = Combine(sc.emit, sc.albedo, BLACK)
                           /\ pc' = "ret"
                           /\ bounce' = [bb EXCEPT !.event = "zero",
                                                    !.contribution = BLACK]
                           /\ UNCHANGED <<limit, ray, stack>>
                      ELSE /\ stack' = Append(stack, [emit |-> sc.emit,
                                                      albedo |-> sc.albedo,
                                                      weight |-> weight,
                                                      density |-> density,
                                                      sampled |-> (c.tag = "None")])
                           /\ limit' = NextLimit(limit)
                           /\ ray' = new_dir
                           /\ pc' = "call"
                           /\ bounce' = [bb EXCEPT !.event = "scatter"]
                           /\ UNCHANGED ret
    /\ UNCHANGED <<world, limit0>>
    /\ UNCHANGED notTrace

\* The recursive call returned: emit + albedo * (weight * trace_ray(..)).
TraceReturn ==
    /\ pc = "ret"
    /\ stack # <<>>
    /\ LET f == stack[Len(stack)]
           contribution == ColorScale(f.weight, ret)
       IN
       /\ ret' = Combine(f.emit, f.albedo, contribution)
       /\ bounce' = [NoBounce EXCEPT !.event = "return",
                                     !.emit = f.emit, !.albedo = f.albedo,
                                     !.weight = f.weight, !.density = f.density,
                                     !.sampled = f.sampled,
                                     !.contribution = contribution,
                                     !.callee = ret]
    /\ stack' = SubSeq(stack, 1, Len(stack) - 1)
    /\ limit' = limit + 1
    /\ UNCHANGED <<world, pc, limit0, ray, queries>>
    /\ UNCHANGED notTrace

\* The outermost call returned to Renderer::trace.
TraceFinish ==
    /\ pc = "ret"
    /\ stack = <<>>
    /\ pc' = "done"
    /\ UNCHANGED <<world, limit, limit0, ray, stack, ret, queries, bounce>>
    /\ UNCHANGED notTrace

AllMaterials == {"Lambertian", "Metal", "Dielectric", "DiffuseLight", "Fog"}

\* The scenes explored: every combination of background, importance
\* sampling and important shape over a scene with and without a light, and
\* a scene of glass only.
Scenes ==
    [background : {"Sky", "Black"},
     materials : {AllMaterials, AllMaterials \ {"DiffuseLight"}, {"Dielectric"}},
     important_shape : ImportantShapes,
     importance_sampling : {TRUE}]
    \cup [background : {"Sky", "Black"},
          materials : {AllMaterials, AllMaterials \ {"DiffuseLight"}, {"Dielectric"}},
          important_shape : {"Empty", "Sphere"},
          importance_sampling : {FALSE}]

\* The glass-only scene has one frame per depth, so the camera's budget of
\* 50 is explored there; the other scenes are explored to MaxLimit.
Budgets(w) ==
    IF w.materials = {"Dielectric"} THEN {CameraLimit} ELSE -1..MaxLimit

IdleMix == /\ mix = NoSampler
           /\ call = [op |-> "none", result |-> None, value |-> Zero]
IdleBvh == /\ objects = <<>>
           /\ bvh = <<>>
           /\ construction = "none"
           /\ query = <<>>

\* The pixels of the image: params.width = 2, params.height = 1.
Pixels == 1..2

\* Renderer::new: samples: 0, sums: vec![Color::BLACK; width * height]
IdleRender == /\ samples = 0
              /\ sums = [k \in Pixels |-> BLACK]
              /\ passes = <<>>
              /\ image = <<>>

\* Rng::seed_from_u64 of crate::rng: a generator is the position in the
\* stream its seed fixes, here of the congruential stream x -> 5x + 3 mod 16.
Rng_seed_from_u64(seed) == seed % 16

\* rng.gen::<f64>(): the value in [0, 1) at the position
Rng_gen(rng) == Q(rng, 16)

\* the generator after one value was drawn from it
Rng_next(rng) == (5 * rng + 3) % 16

\* A closure that is not running.
NoUnit == [pc |-> "none", u |-> Zero, v |-> Zero, bounces |-> 0, color |-> BLACK]

\* Renderer::new: rngs = (0..width * height).map(|k| Rng::seed_from_u64(k))
IdlePass == /\ views = [k \in Pixels |-> Zero]
            /\ phase = "idle"
            /\ rngs = [k \in Pixels |-> Rng_seed_from_u64(k - 1)]
            /\ taken = <<>>
            /\ unit = [k \in Pixels |-> NoUnit]
            /\ collected = <<>>
            /\ cursor = [i |-> 0, j |-> 0]

NoWriter == [period |-> 0, samples_per_pixel |-> 0, fails |-> {}]

IdleWrite == /\ writer = NoWriter
             /\ written = <<>>
             /\ outcome = "none"

IdleFn == /\ fn = "none"
          /\ args = <<>>
          /\ out = <<>>

IdleTrace == /\ world = [background |-> "Black", materials |-> {},
                          important_shape |-> "Empty", importance_sampling |-> FALSE]
             /\ pc = "idle"
             /\ limit = 0
             /\ limit0 = 0
             /\ ray = NoDir
             /\ stack = <<>>
             /\ ret = BLACK
             /\ queries = 0
             /\ bounce = NoBounce

InitTrace ==
    /\ IdleRender /\ IdlePass /\ IdleWrite
    /\ world \in Scenes
    /\ limit0 \in Budgets(world)
    /\ limit = limit0
    /\ pc = "call"
    /\ ray \in Dirs
    /\ stack = <<>>
    /\ ret = BLACK
    /\ queries = 0
    /\ bounce = NoBounce
    /\ IdleMix
    /\ IdleBvh
    /\ IdleFn

NextTrace ==
    \/ TraceCutoff
    \/ TraceMiss
    \/ TraceTerminal
    \/ TraceScatter
    \/ TraceReturn
    \/ TraceFinish

SpecTrace == InitTrace /\ [][NextTrace]_vars

-----------------------------------------------------------------------------
(*                     Properties of trace_ray                             *)

Max(a, b) == IF a > b THEN a ELSE b

\* A measure of the work a trace has left: it is a natural number and
\* every step of the trace decreases it.
TraceMeasure ==
    CASE pc = "call" -> 2 * Max(limit, 0) + Len(stack) + 2
      [] pc = "ret"  -> Len(stack) + 1
      [] OTHER       -> 0

\* C1: a call with limit <= 0 returns black at once without querying the
\* scene; every recursive call is entered with exactly limit - 1; so a trace
\* started with budget limit0 makes at most max(limit0, 0) scene queries
\* (at most 50 for the camera's budget of 50), never nests deeper than
\* that, and terminates (every step decreases TraceMeasure).
C1_DepthBudget ==
    [][/\ (pc = "call" /\ limit <= 0) =>
             (pc' = "ret" /\ ret' = BLACK /\ queries' = queries /\ stack' = stack)
       /\ (Len(stack') > Len(stack)) =>
             (limit' = limit - 1 /\ Len(stack') = Len(stack) + 1)
       /\ limit' = limit0' - Len(stack')
       /\ queries' <= Max(limit0', 0)
       /\ Len(stack') <= Max(limit0', 0)
       /\ TraceMeasure' < TraceMeasure]_vars

\* C1 witness: a camera trace (budget 50) that used its whole budget, was
\* cut off at depth 50 and returned.
C1_Witness ==
    /\ limit0 = CameraLimit
    /\ queries = CameraLimit
    /\ pc = "done"

\* C2 (as claimed): when the density of the trace sampler at the drawn
\* direction is zero, the contribution of the bounce is exactly BLACK.
C2_ZeroDensityIsBlack ==
    (/\ bounce.event \in {"zero", "return"}
     /\ bounce.sampled
     /\ FEq(bounce.density, Zero))
    => bounce.contribution = BLACK

\* C3 (as claimed): with a Black background and no emitting material every
\* trace_ray call returns exactly BLACK.
C3_DarkSceneIsBlack ==
    (/\ world.background = "Black"
     /\ "DiffuseLight" \notin world.materials
     /\ pc \in {"ret", "done"})
    => ret = BLACK

\* C4: a hit on a terminal material (no sampler; the DiffuseLight of
\* radiance Radiance) makes trace_ray return exactly that radiance, with one
\* scene query, no direction drawn and no recursive call.
C4_TerminalReturnsEmit ==
    [][(pc = "call" /\ bounce'.event = "terminal") =>
          /\ limit >= 1
          /\ pc' = "ret"
          /\ ret' = Radiance
          /\ ~bounce'.sampled
          /\ stack' = stack /\ limit' = limit
          /\ queries' = queries + 1]_vars

\* C4 witness: the camera ray itself hits the light and the trace returns
\* its radiance.
C4_Witness ==
    /\ bounce.event = "terminal"
    /\ stack = <<>>
    /\ limit0 >= 1
    /\ ret = Radiance
    /\ pc = "ret"

\* C5: at a scattering event the trace sampler is the two-element mixture
\* {material sampler, important-shape sampler} iff the important shape gave
\* a sampler, and the material sampler alone otherwise; without importance
\* sampling the important shape gives none; the direction comes from the
\* trace sampler; and when it is not constant the radiance of the recursive
\* call is multiplied by material density / combined density.
C5_State ==
    bounce.event \in {"scatter", "zero", "panic"} =>
        /\ IsSome(bounce.important_sampler) <=>
              (bounce.trace_sampler =
                  MixedSampler_new(<<bounce.scatter_sampler, bounce.important_sampler>>))
        /\ ~IsSome(bounce.important_sampler) =>
              bounce.trace_sampler = bounce.scatter_sampler
        /\ ~world.importance_sampling => ~IsSome(bounce.important_sampler)
        /\ bounce.event # "panic" =>
              /\ bounce.sampled <=> (constant(bounce.trace_sampler) = None)
              /\ bounce.new_dir \in sample(bounce.trace_sampler)
              /\ bounce.sampled =>
                    bounce.weight = FDiv(probability(bounce.scatter_sampler),
                                         probability(bounce.trace_sampler))

C5_Composition ==
    /\ []C5_State
    /\ [][Len(stack') < Len(stack) =>
             LET f == stack[Len(stack)] IN
             /\ bounce'.event = "return"
             /\ bounce'.contribution = ColorScale(f.weight, ret)
             /\ ret' = ColorAdd(f.emit, ColorMul(f.albedo, bounce'.contribution))]_vars

\* C5 witness: a direction was drawn from the mixture of a material sampler
\* and an important-shape sampler with a weight that is neither 0 nor 1, and
\* the trace recursed.
C5_Witness ==
    /\ bounce.event = "scatter"
    /\ IsSome(bounce.important_sampler)
    /\ bounce.sampled
    /\ bounce.weight = F(2)

-----------------------------------------------------------------------------
(*            MixedSampler in isolation (rust/src/sampler.rs)              *)

\* Largest number of children of the mixtures explored.
MaxChildren == 3

\* The children mixed: stochastic samplers, and the three ways a child is
\* constant (two ConstantSamplers of different directions and a
\* SphereSampler of radius 0).
MixKids ==
    {LambertianSampler(Zero), LambertianSampler(Q(1, 4)), RectangleSampler(Q(1, 4)),
     SphereSampler(<<1, 0, 0>>, One, Q(1, 4)),
     SphereSampler(<<1, 0, 0>>, Zero, Zero),
     ConstantSampler(<<0, 1, 0>>), ConstantSampler(<<1, 0, 0>>)}

MixInputs == UNION {[1..n -> MixKids] : n \in 0..MaxChildren}

NoCall == [op |-> "none", result |-> None, value |-> Zero]

\* A method of the mixture can be called once it is built and as long as
\* no call on it has panicked.
MixLive == mix.kind = "Mixed" /\ call.result # Panic

\* MixedSampler::new(samplers)
MixNew ==
    /\ mix = NoSampler
    /\ \E samplers \in MixInputs :
         LET m == MixedSampler_new(samplers) IN
         /\ mix' = m
         /\ call' = [op |-> "new",
                     result |-> IF m = PanickedSampler THEN Panic ELSE None,
                     value |-> Zero]
    /\ UNCHANGED notMix

\* mix.constant()
MixConstant ==
    /\ MixLive
    /\ call' = [op |-> "constant", result |-> constant(mix), value |-> Zero]
    /\ UNCHANGED mix
    /\ UNCHANGED notMix

\* mix.sample(rng): samplers.choose(rng) is None for an empty mixture and
\* unwrap() panics.
MixSample ==
    /\ MixLive
    /\ IF Len(mix.kids) = 0
       THEN call' = [op |-> "sample", result |-> Panic, value |-> Zero]
       ELSE \E d \in sample(mix) :
              call' = [op |-> "sample", result |-> Some(d), value |-> Zero]
    /\ UNCHANGED mix
    /\ UNCHANGED notMix

\* mix.probability(dir)
MixProbability ==
    /\ MixLive
    /\ call' = [op |-> "probability", result |-> None, value |-> probability(mix)]
    /\ UNCHANGED mix
    /\ UNCHANGED notMix

InitMix ==
    /\ IdleRender /\ IdlePass /\ IdleWrite
    /\ IdleTrace
    /\ mix = NoSampler
    /\ call = NoCall
    /\ IdleBvh
    /\ IdleFn

NextMix ==
    \/ MixNew
    \/ MixConstant
    \/ MixSample
    \/ MixProbability

SpecMix == InitMix /\ [][NextMix]_vars

\* The directions of the constant children of the mixture, read off the
\* children (a ConstantSampler, or a SphereSampler of radius 0).
ConstantChildDirs ==
    {mix.kids[i].dir : i \in {j \in 1..Len(mix.kids) :
        \/ mix.kids[j].kind = "Constant"
        \/ mix.kids[j].kind = "Sphere" /\ mix.kids[j].radius = Zero}}
ConstantChildCount ==
    Cardinality({j \in 1..Len(mix.kids) :
        \/ mix.kids[j].kind = "Constant"
        \/ mix.kids[j].kind = "Sphere" /\ mix.kids[j].radius = Zero})

\* C6: MixedSampler.constant() returns None when no child is constant, the
\* direction of the constant child when exactly one is, and panics when two
\* or more are (it never returns the direction of one of several).
C6_ConstantOfMixture ==
    call.op = "constant" =>
        /\ ConstantChildCount = 0 => call.result = None
        /\ ConstantChildCount = 1 =>
              call.result.tag = "Some" /\ ConstantChildDirs = {call.result.val}
        /\ ConstantChildCount >= 2 => call.result = Panic

\* C6 witness: constant() panicked on a mixture of two constant children
\* of different directions and a stochastic one.
C6_Witness ==
    /\ call.op = "constant"
    /\ call.result = Panic
    /\ Cardinality(ConstantChildDirs) = 2
    /\ ConstantChildCount < Len(mix.kids)

-----------------------------------------------------------------------------
(*      Geometry (rust/src/geom.rs, src/ray.rs, rust/src/shape.rs)         *)

\* A split that never leaves the X axis.
Axis_next_MutStay(axis) == axis

\* Axis::next
Axis_next(axis) ==
    CASE axis = "X" -> "Y"
      [] axis = "Y" -> "Z"
      [] axis = "Z" -> "X"

\* IntoVec3::get
Vec3_get(v, axis) ==
    CASE axis = "X" -> v[1]
      [] axis = "Y" -> v[2]
      [] axis = "Z" -> v[3]

\* A match whose Y and Z arms are exchanged.
Vec3_rotate_to_MutExchanged(v, to) ==
    CASE to = "X" -> v
      [] to = "Y" -> <<v[2], v[3], v[1]>>
      [] to = "Z" -> <<v[3], v[1], v[2]>>

\* Vec3::rotate_axes at from == Axis::X: match to { X => self,
\* Y => Vec3::new(self.z, self.x, self.y), Z => Vec3::new(self.y, self.z, self.x) }
Vec3_rotate_to(v, to) ==
    CASE to = "X" -> v
      [] to = "Y" -> <<v[3], v[1], v[2]>>
      [] to = "Z" -> <<v[2], v[3], v[1]>>

\* Vec3::rotate_axes(from, to)
RECURSIVE Vec3_rotate_axes(_, _, _)
Vec3_rotate_axes(v, from, to) ==
    IF from # "X" THEN Vec3_rotate_axes(v, Axis_next(from), Axis_next(to))
    ELSE Vec3_rotate_to(v, to)

Box3_new(min, max) == [min |-> min, max |-> max]
Box3_EMPTY == Box3_new(<<PInf, PInf, PInf>>, <<NInf, NInf, NInf>>)

\* A union that keeps the second box only.
Box3_union_MutSecond(b1, b2) == b2

\* A union that grows the min corner only.
Box3_union_MutKeepMax(b1, b2) ==
    Box3_new(<<FMin(b1.min[1], b2.min[1]), FMin(b1.min[2], b2.min[2]),
               FMin(b1.min[3], b2.min[3])>>,
             b1.max)

\* Box3::union
Box3_union(b1, b2) ==
    Box3_new(<<FMin(b1.min[1], b2.min[1]), FMin(b1.min[2], b2.min[2]),
               FMin(b1.min[3], b2.min[3])>>,
             <<FMax(b1.max[1], b2.max[1]), FMax(b1.max[2], b2.max[2]),
               FMax(b1.max[3], b2.max[3])>>)

Ray_new(origin, dir, time) == [origin |-> origin, dir |-> dir, time |-> time]

\* Ray::at: self.origin + self.dir * t
Ray_at(r, t) ==
    <<FAdd(r.origin[1], FMul(r.dir[1], t)),
      FAdd(r.origin[2], FMul(r.dir[2], t)),
      FAdd(r.origin[3], FMul(r.dir[3], t))>>

\* fn range(ray, bb, axis) of Ray::intersects
Ray_range(r, bb, axis) ==
    LET t0 == FDiv(FSub(Vec3_get(bb.min, axis), Vec3_get(r.origin, axis)),
                   Vec3_get(r.dir, axis))
        t1 == FDiv(FSub(Vec3_get(bb.max, axis), Vec3_get(r.origin, axis)),
                   Vec3_get(r.dir, axis))
    IN <<FMin(t0, t1), FMax(t0, t1)>>

\* Ray::intersects
Ray_intersects(r, bb, t_min, t_max) ==
    LET x == Ray_range(r, bb, "X")
        y == Ray_range(r, bb, "Y")
        z == Ray_range(r, bb, "Z")
    IN FLe(FMax(FMax(FMax(t_min, x[1]), y[1]), z[1]),
           FMin(FMin(FMin(t_max, x[2]), y[2]), z[2]))

Rectangle(axis, a, b_min, b_max, c_min, c_max) ==
    [axis |-> axis, a |-> a, b_min |-> b_min, b_max |-> b_max,
     c_min |-> c_min, c_max |-> c_max]

\* Option<Hit> / Option<ObjectHit>: the parameter t and the object hit.
NoHit == [some |-> FALSE, t |-> Zero, id |-> 0]
SomeHit(t, id) == [some |-> TRUE, t |-> t, id |-> id]

\* Rectangle::hit, as a t (NaN for None).
Rectangle_hit(s, r, t_min, t_max) ==
    LET t == FDiv(FSub(s.a, Vec3_get(r.origin, s.axis)), Vec3_get(r.dir, s.axis)) IN
    IF IsNaN(t) \/ FLt(t, t_min) \/ FGt(t, t_max) THEN NaN
    ELSE LET point == Ray_at(r, t)
             b == Vec3_get(point, Axis_next(s.axis))
             c == Vec3_get(point, Axis_next(Axis_next(s.axis)))
         IN IF FLt(b, s.b_min) \/ FGt(b, s.b_max) \/ FLt(c, s.c_min) \/ FGt(c, s.c_max)
            THEN NaN
            ELSE t

\* Rectangle::bounding_box
Rectangle_bounding_box(s) ==
    Box3_new(Vec3_rotate_axes(<<s.a, s.b_min, s.c_min>>, "X", s.axis),
             Vec3_rotate_axes(<<s.a, s.b_max, s.c_max>>, "X", s.axis))

-----------------------------------------------------------------------------
(*            Objects: the BVH (engine/src/object.rs)                      *)

NoShape == Rectangle("X", Zero, Zero, Zero, Zero, Zero)

\* An ObjectPtr is a SolidObject over a Rectangle (kind "Solid", told apart
\* by id) or an Objects node (kind "Objects", with children and a box).
SolidObject(id, shape) ==
    [kind |-> "Solid", id |-> id, shape |-> shape, children |-> <<>>,
     bb |-> Rectangle_bounding_box(shape)]

\* Object::bounding_box
Object_bounding_box(o) == o.bb

\* Objects::new_flat
RECURSIVE UnionBoxes(_, _)
UnionBoxes(bb, objs) ==
    IF Len(objs) = 0 THEN bb
    ELSE UnionBoxes(Box3_union(bb, Object_bounding_box(Head(objs))), Tail(objs))

Objects_new_flat(objs) ==
    [kind |-> "Objects", id |-> 0, shape |-> NoShape, children |-> objs,
     bb |-> UnionBoxes(Box3_EMPTY, objs)]

\* objects.len() <= 5
LeafMax == 5

\* The key of the sort: a.bounding_box(time).min.get(axis)
SortKey(o, axis) == Vec3_get(Object_bounding_box(o).min, axis)

\* Vec::sort_by is a stable sort: the element at index i ends up after the
\* elements of smaller key and after the elements of equal key that stood
\* before it.
SortRank(objs, i, axis) ==
    Cardinality({j \in 1..Len(objs) :
        \/ FLt(SortKey(objs[j], axis), SortKey(objs[i], axis))
        \/ j < i /\ ~FLt(SortKey(objs[i], axis), SortKey(objs[j], axis))}) + 1

sort_by(objs, axis) ==
    [p \in 1..Len(objs) |->
        objs[CHOOSE i \in 1..Len(objs) : SortRank(objs, i, axis) = p]]

\* A split that loses the first element of the second half.
split_off_MutDrop(objs, at) == SubSeq(objs, at + 2, Len(objs))

\* Vec::split_off(at): the elements [at, len); the vector keeps [0, at).
split_off(objs, at) == SubSeq(objs, at + 1, Len(objs))

\* partial_cmp(..).expect("NaN in coordinates"): sorting two or more
\* elements compares every one of them with another, and partial_cmp is
\* None as soon as one of the two keys is NaN.
ComparesNaN(objs, axis) ==
    Len(objs) >= 2 /\ \E i \in 1..Len(objs) : IsNaN(SortKey(objs[i], axis))

\* A failed sort that yields an empty node instead of unwinding.
PanickedObjects_MutEmptyNode == Objects_new_flat(<<>>)

\* What Objects::new leaves when divide panicked: no tree.
PanickedObjects ==
    [kind |-> "Panicked", id |-> 0, shape |-> NoShape, children |-> <<>>,
     bb |-> Box3_EMPTY]

\* fn divide of Objects::new
RECURSIVE divide(_, _)
divide(objs, axis) ==
    IF Len(objs) <= LeafMax THEN Objects_new_flat(objs)
    ELSE IF ComparesNaN(objs, axis) THEN PanickedObjects
    ELSE LET sorted == sort_by(objs, axis)
             at     == Len(sorted) \div 2
             other  == split_off(sorted, at)
             kept   == SubSeq(sorted, 1, at)
             first  == divide(kept, Axis_next(axis))
             second == divide(other, Axis_next(axis))
         IN IF first.kind = "Panicked" \/ second.kind = "Panicked"
            THEN PanickedObjects
            ELSE Objects_new_flat(<<first, second>>)

\* Objects::new
Objects_new(objs) == divide(objs, "X")

\* h.or(best)
HitOr(h, best) == IF h.some THEN h ELSE best

\* Object::hit of a SolidObject and of Objects (the fold over children
\* with the interval shrinking to the best hit so far).
RECURSIVE Object_hit(_, _, _, _)
RECURSIVE FoldHit(_, _, _, _, _)
FoldHit(children, best, r, t_min, t_max) ==
    IF Len(children) = 0 THEN best
    ELSE LET t_best == IF best.some THEN best.t ELSE t_max
             h      == Object_hit(Head(children), r, t_min, t_best)
         IN FoldHit(Tail(children), HitOr(h, best), r, t_min, t_max)

Object_hit(o, r, t_min, t_max) ==
    IF o.kind = "Solid"
    THEN LET t == Rectangle_hit(o.shape, r, t_min, t_max) IN
         IF IsNaN(t) THEN NoHit ELSE SomeHit(t, o.id)
    ELSE IF ~Ray_intersects(r, o.bb, t_min, t_max) THEN NoHit
         ELSE FoldHit(o.children, NoHit, r, t_min, t_max)

-----------------------------------------------------------------------------
(*                 Building and querying a BVH                             *)

\* Largest number of objects given to Objects::new, and the number of
\* layouts of them explored.
MaxObjects == 48
NumLayouts == 3
\* The number of objects that are each given a NaN coordinate in turn.
NumNaN == 3

Axes == <<"X", "Y", "Z">>

\* The i-th rectangle of layout k: axis-aligned unit-grid rectangles whose
\* corners repeat with different periods along the three axes, so that the
\* orders along X, Y and Z differ and keys tie.
RectOf(i, k) ==
    LET b == (i * 3 + k) % 4
        c == (i * 5 + k) % 3
    IN Rectangle(Axes[((i + k) % 3) + 1], F((i * (k + 2)) % 5),
                 F(b), F(b + 1 + (i % 2)), F(c), F(c + 1))

Inputs(n, k) == [i \in 1..n |-> SolidObject(i, RectOf(i, k))]

\* The input of layout 1 with the plane coordinate of object j (along X, Y
\* or Z, as the rectangle's axis is) replaced by NaN.
InputsNaN(n, j) ==
    [i \in 1..n |->
        IF i = j THEN SolidObject(i, [RectOf(i, 1) EXCEPT !.a = NaN])
        ELSE SolidObject(i, RectOf(i, 1))]

AllInputs ==
    {Inputs(n, k) : n \in 0..MaxObjects, k \in 1..NumLayouts}
    \cup {InputsNaN(n, j) : n \in 1..MaxObjects, j \in 1..NumNaN}

\* Rays: from a grid corner, from a cell centre and from a point on a
\* grid plane; along the axes and along directions with two and three
\* non-zero components (unit vectors with rational components).
Origins ==
    {<<Zero, Zero, Zero>>, <<Q(1, 2), Q(1, 2), Q(1, 2)>>, <<F(2), One, Q(3, 2)>>}
RayDirs ==
    {<<One, Zero, Zero>>, <<Zero, One, Zero>>, <<Zero, Zero, One>>,
     <<FNeg(One), Zero, Zero>>, <<Q(3, 5), Q(4, 5), Zero>>,
     <<Q(2, 3), Q(2, 3), Q(1, 3)>>}
Intervals == {<<Q(1, 1000), PInf>>, <<Zero, F(2)>>, <<One, F(3)>>}

\* Objects::new(objects, time)
BvhNew ==
    /\ construction = "none"
    /\ \E input \in AllInputs :
         LET tree == Objects_new(input) IN
         /\ objects' = input
         /\ IF tree.kind = "Panicked"
            THEN bvh' = <<>> /\ construction' = "panicked"
            ELSE bvh' = <<tree>> /\ construction' = "built"
    /\ UNCHANGED query
    /\ UNCHANGED notBvh

\* Objects::hit(ray, t_min, t_max, rng) on the tree built.  A query leaves
\* the tree as it is, so one query per behaviour covers every query.
BvhHit ==
    /\ construction = "built"
    /\ Len(query) = 0
    /\ \E origin \in Origins, dir \in RayDirs, iv \in Intervals :
         query' = <<[ray |-> Ray_new(origin, dir, Zero), t_min |-> iv[1], t_max |-> iv[2],
                     hit |-> Object_hit(bvh[1], Ray_new(origin, dir, Zero), iv[1], iv[2])]>>
    /\ UNCHANGED <<objects, bvh, construction>>
    /\ UNCHANGED notBvh

InitBvh ==
    /\ IdleRender /\ IdlePass /\ IdleWrite
    /\ IdleTrace
    /\ IdleMix
    /\ IdleBvh
    /\ IdleFn

NextBvh ==
    \/ BvhNew
    \/ BvhHit

SpecBvh == InitBvh /\ [][NextBvh]_vars

-----------------------------------------------------------------------------
(*                       Properties of the BVH                             *)

\* The objects below a node, leaf by leaf from left to right.
RECURSIVE LeafObjects(_)
LeafObjects(o) ==
    IF o.kind = "Solid" THEN <<o>>
    ELSE IF \A i \in 1..Len(o.children) : o.children[i].kind = "Solid"
         THEN o.children
    ELSE LeafObjects(o.children[1]) \o LeafObjects(o.children[2])

\* A leaf holds objects only (possibly none); an inner node holds nodes only.
IsLeaf(o) ==
    o.kind = "Objects" /\ \A i \in 1..Len(o.children) : o.children[i].kind = "Solid"
IsInner(o) ==
    /\ o.kind = "Objects"
    /\ Len(o.children) > 0
    /\ \A i \in 1..Len(o.children) : o.children[i].kind = "Objects"

\* Every node is a leaf of at most 5 objects or an inner node.
RECURSIVE SmallLeaves(_)
SmallLeaves(o) ==
    \/ IsLeaf(o) /\ Len(o.children) <= 5
    \/ IsInner(o) /\ \A i \in 1..Len(o.children) : SmallLeaves(o.children[i])

\* The bounding-box min coordinates along an axis of the objects below a node.
MinKeys(o, axis) ==
    LET L == LeafObjects(o) IN
    {Vec3_get(Rectangle_bounding_box(L[i].shape).min, axis) : i \in 1..Len(L)}

\* The split axis of a node at depth d: X at the root, then Y, Z, X, ...
AxisAtDepth(d) == Axes[(d % 3) + 1]

\* A node at depth d is a leaf of at most 5 objects, or has exactly two
\* children holding floor(n/2) and ceil(n/2) of its n > 5 objects, the
\* first child's objects not after the second's along the node's axis.
RECURSIVE WellSplit(_, _)
WellSplit(o, d) ==
    \/ IsLeaf(o) /\ Len(o.children) <= 5
    \/ /\ IsInner(o)
       /\ Len(o.children) = 2
       /\ LET n1 == Len(LeafObjects(o.children[1]))
              n2 == Len(LeafObjects(o.children[2]))
          IN /\ n1 + n2 > 5
             /\ n1 = (n1 + n2) \div 2
             /\ n2 = (n1 + n2) - ((n1 + n2) \div 2)
       /\ \A ka \in MinKeys(o.children[1], AxisAtDepth(d)),
             kb \in MinKeys(o.children[2], AxisAtDepth(d)) : FLe(ka, kb)
       /\ WellSplit(o.children[1], d + 1)
       /\ WellSplit(o.children[2], d + 1)

\* The depth of the deepest inner node of a tree (-1 for a single leaf).
RECURSIVE InnerDepth(_)
InnerDepth(o) ==
    IF ~IsInner(o) THEN -1
    ELSE 1 + Max(InnerDepth(o.children[1]), InnerDepth(o.children[2]))

\* The hits of a linear scan: each object's own hit in [t_min, t_max].
ScanHits(objs, r, t_min, t_max) ==
    {t \in {Rectangle_hit(objs[i].shape, r, t_min, t_max) : i \in 1..Len(objs)} :
        ~IsNaN(t)}

\* C8 (as claimed): for every object set, ray and interval the tree built
\* by Objects::new reports a hit iff a linear scan over all the objects
\* finds one, and the t it reports is the least t of the objects' hits.
C8_BvhEqualsLinearScan ==
    Len(query) = 1 =>
        LET q  == query[1]
            ts == ScanHits(objects, q.ray, q.t_min, q.t_max)
        IN /\ q.hit.some <=> (ts # {})
           /\ q.hit.some => (q.hit.t \in ts /\ \A t \in ts : FLe(q.hit.t, t))

\* C9: the leaves of the tree Objects::new built partition its input (each
\* input object is in exactly one leaf, once), every leaf holds at most 5
\* objects, and an input of at most 5 objects gives a single leaf holding
\* the input.
C9_LeavesPartitionInput ==
    Len(bvh) = 1 =>
        LET L == LeafObjects(bvh[1]) IN
        /\ Len(L) = Len(objects)
        /\ {L[i] : i \in 1..Len(L)} = {objects[i] : i \in 1..Len(objects)}
        /\ \A i, j \in 1..Len(L) : L[i].id = L[j].id => i = j
        /\ SmallLeaves(bvh[1])
        /\ Len(objects) <= 5 => (IsLeaf(bvh[1]) /\ bvh[1].children = objects)

\* C9 witness: a tree built from 11 objects: a leaf of 5 and a node that
\* splits its 6 objects again.
C9_Witness ==
    /\ Len(bvh) = 1
    /\ Len(objects) = 11
    /\ IsInner(bvh[1])
    /\ Len(bvh[1].children[1].children) = 5
    /\ IsInner(bvh[1].children[2])

\* C10: every node built from n > 5 objects has exactly two children, of
\* floor(n/2) and ceil(n/2) objects; every object of the first has a
\* bounding-box min coordinate <= that of every object of the second along
\* the node's split axis; the split axis is X at the root and advances
\* X -> Y -> Z -> X with each level.
C10_MedianSplitCyclingAxis ==
    Len(bvh) = 1 =>
        /\ WellSplit(bvh[1], 0)
        /\ Len(objects) > 5 => IsInner(bvh[1])

\* C10 witness: a tree with splits at depths 0..3 (axes X, Y, Z and X
\* again) built from objects that were not in X order.
C10_Witness ==
    /\ Len(bvh) = 1
    /\ InnerDepth(bvh[1]) = 3
    /\ \E i \in 1..Len(objects) - 1 :
          FLt(SortKey(objects[i + 1], "X"), SortKey(objects[i], "X"))

\* The least and the greatest of a set of f64 values.
Least(S)    == CHOOSE x \in S : \A y \in S : FLe(x, y)
Greatest(S) == CHOOSE x \in S : \A y \in S : FLe(y, x)

\* The union of the children's boxes, coordinate by coordinate: the least
\* min and the greatest max among the children (f64::min and f64::max skip
\* a NaN), +inf and -inf when there is none.
UnionOfChildren(o) ==
    Box3_new([a \in 1..3 |->
                 Least({PInf} \cup ({o.children[i].bb.min[a] : i \in 1..Len(o.children)}
                                    \ {NaN}))],
             [a \in 1..3 |->
                 Greatest({NInf} \cup ({o.children[i].bb.max[a] : i \in 1..Len(o.children)}
                                       \ {NaN}))])

\* No coordinate of the box of an object below o lies outside o's box.
ContainsSubtree(o) ==
    LET L == LeafObjects(o) IN
    \A i \in 1..Len(L), a \in 1..3 :
        /\ IsNaN(L[i].bb.min[a]) \/ FLe(o.bb.min[a], L[i].bb.min[a])
        /\ IsNaN(L[i].bb.max[a]) \/ FLe(L[i].bb.max[a], o.bb.max[a])

RECURSIVE BoxesAreUnions(_)
BoxesAreUnions(o) ==
    \/ o.kind = "Solid"
    \/ /\ o.bb = UnionOfChildren(o)
       /\ ContainsSubtree(o)
       /\ \A i \in 1..Len(o.children) : BoxesAreUnions(o.children[i])

\* C11: the box stored in every node of the tree is the union of its
\* children's bounding boxes, so it contains the bounding box of every
\* object below the node; the tree built from no objects has the EMPTY box.
C11_NodeBoxIsUnion ==
    construction = "built" =>
        /\ BoxesAreUnions(bvh[1])
        /\ Len(objects) = 0 => bvh[1].bb = Box3_EMPTY

\* C11 witness: a tree of inner nodes and leaves whose root box is finite
\* and larger than the box of its first object.
C11_Witness ==
    /\ construction = "built"
    /\ InnerDepth(bvh[1]) >= 1
    /\ \A a \in 1..3 : IsFinite(bvh[1].bb.min[a]) /\ IsFinite(bvh[1].bb.max[a])
    /\ bvh[1].bb # objects[1].bb

\* No sort on the way to this tree compared a NaN key: at every inner node
\* (depth d, axis AxisAtDepth(d)) the keys of the objects below are numbers.
RECURSIVE NoNaNCompared(_, _)
NoNaNCompared(o, d) ==
    \/ IsLeaf(o)
    \/ /\ \A k \in MinKeys(o, AxisAtDepth(d)) : ~IsNaN(k)
       /\ \A i \in 1..Len(o.children) : NoNaNCompared(o.children[i], d + 1)

\* C12: a NaN coordinate met while sorting aborts Objects::new with a
\* panic and no tree: a tree is returned only if no sort compared a NaN
\* key, a panic happens only on more than 5 objects with a NaN min
\* coordinate, and more than 5 objects with a NaN key along X always panic.
C12_NaNSortPanics ==
    /\ construction = "panicked" =>
          /\ bvh = <<>>
          /\ Len(objects) > 5
          /\ \E i \in 1..Len(objects), a \in 1..3 : IsNaN(objects[i].bb.min[a])
    /\ construction = "built" =>
          /\ Len(bvh) = 1
          /\ bvh[1].kind = "Objects"
          /\ NoNaNCompared(bvh[1], 0)
    /\ (/\ Len(objects) > 5
        /\ \E i \in 1..Len(objects) : IsNaN(SortKey(objects[i], "X")))
          => construction # "built"

\* C12 witness: construction panicked in the sort of a child node: the
\* keys along X were numbers, a key along Y was not.
C12_Witness ==
    /\ construction = "panicked"
    /\ \A i \in 1..Len(objects) : ~IsNaN(SortKey(objects[i], "X"))
    /\ \E i \in 1..Len(objects) : IsNaN(SortKey(objects[i], "Y"))

-----------------------------------------------------------------------------
(*                Box3::union on its own (rust/src/geom.rs)                *)

\* Largest corner coordinate of the grid boxes.
MaxCoord == 1

\* Boxes of numbers: grid boxes (flat along Z, and inverted along X when
\* w is negative), EMPTY, the whole space, a half space and a point.
NumberBoxes ==
    {Box3_new(<<F(a), F(c), Zero>>, <<F(a + w), F(c + 1), Zero>>) :
        a \in 0..MaxCoord, c \in 0..MaxCoord, w \in -1..1}
    \cup {Box3_EMPTY,
          Box3_new(<<NInf, NInf, NInf>>, <<PInf, PInf, PInf>>),
          Box3_new(<<Zero, NInf, F(-1)>>, <<PInf, Zero, Q(1, 2)>>),
          Box3_new(<<Q(1, 2), Q(1, 2), Q(1, 2)>>, <<Q(1, 2), Q(1, 2), Q(1, 2)>>)}

\* Boxes with a NaN coordinate.
NaNBoxes ==
    {Box3_new(<<NaN, Zero, Zero>>, <<One, One, One>>),
     Box3_new(<<Zero, Zero, Zero>>, <<One, NaN, One>>)}

Boxes == NumberBoxes \cup NaNBoxes

\* a.union(b) and b.union(a)
BoxUnionPair ==
    /\ fn = "none"
    /\ fn' = "union2"
    /\ out' = <<Box3_union(args[1], args[2]), Box3_union(args[2], args[1])>>
    /\ UNCHANGED args
    /\ UNCHANGED notFn

\* a.union(b).union(c) and a.union(b.union(c))
BoxUnionTriple ==
    /\ fn = "none"
    /\ fn' = "union3"
    /\ out' = <<Box3_union(Box3_union(args[1], args[2]), args[3]),
                Box3_union(args[1], Box3_union(args[2], args[3]))>>
    /\ UNCHANGED args
    /\ UNCHANGED notFn

\* a.union(a), Box3::EMPTY.union(a) and a.union(Box3::EMPTY)
BoxUnionSelf ==
    /\ fn = "none"
    /\ fn' = "union1"
    /\ out' = <<Box3_union(args[1], args[1]), Box3_union(Box3_EMPTY, args[1]),
                Box3_union(args[1], Box3_EMPTY)>>
    /\ UNCHANGED args
    /\ UNCHANGED notFn

InitBox ==
    /\ IdleRender /\ IdlePass /\ IdleWrite
    /\ IdleTrace
    /\ IdleMix
    /\ IdleBvh
    /\ fn = "none"
    /\ args \in Boxes \X Boxes \X Boxes
    /\ out = <<>>

NextBox ==
    \/ BoxUnionPair
    \/ BoxUnionTriple
    \/ BoxUnionSelf

SpecBox == InitBox /\ [][NextBox]_vars

\* min <= max on every axis
Ordered(b) == \A a \in 1..3 : FLe(b.min[a], b.max[a])
HasNaN(b) == \E a \in 1..3 : IsNaN(b.min[a]) \/ IsNaN(b.max[a])

-----------------------------------------------------------------------------
(*                     Shapes (rust/src/shape.rs)                          *)

Vec3_new(x, y, z) == <<x, y, z>>
Vec3_ZERO == Vec3_new(Zero, Zero, Zero)
Vec3_add(u, v) == <<FAdd(u[1], v[1]), FAdd(u[2], v[2]), FAdd(u[3], v[3])>>
Vec3_sub(u, v) == <<FSub(u[1], v[1]), FSub(u[2], v[2]), FSub(u[3], v[3])>>
Vec3_mul(m, v) == <<FMul(m, v[1]), FMul(m, v[2]), FMul(m, v[3])>>
Vec3_dot(u, v) == FAdd(FAdd(FMul(u[1], v[1]), FMul(u[2], v[2])), FMul(u[3], v[3]))
\* Vec3::norm is the squared length: self.dot(self)
Vec3_norm(v) == Vec3_dot(v, v)

\* Vec3::rotate_around(axis, theta); rot is <<cos(theta), sin(theta)>>.
Vec3_rotate_around(v, axis, rot) ==
    LET r == Vec3_rotate_axes(v, axis, "X")
        q == <<r[1],
               FSub(FMul(r[2], rot[1]), FMul(r[3], rot[2])),
               FAdd(FMul(r[2], rot[2]), FMul(r[3], rot[1]))>>
    IN Vec3_rotate_axes(q, "X", axis)

\* <<cos(-theta), sin(-theta)>>
RotInverse(rot) == <<rot[1], FNeg(rot[2])>>

\* The integer square root, and f64::sqrt on the rationals whose numerator
\* and denominator are squares (the others are marked inexact by the hit
\* that meets them).
ISqrt(n) == CHOOSE k \in 0..n : k * k <= n /\ n < (k + 1) * (k + 1)
IsSquare(n) == n >= 0 /\ ISqrt(n) * ISqrt(n) = n
SqrtExact(a) == a[2] = 0 \/ (IsSquare(a[1]) /\ IsSquare(a[2]))
FSqrt(a) ==
    IF a[2] = 0 THEN (IF a = PInf THEN PInf ELSE NaN)
    ELSE IF a[1] < 0 THEN NaN
    ELSE Norm(ISqrt(a[1]), ISqrt(a[2]))

TimeRange_new(lo, hi) == [lo |-> lo, hi |-> hi]
TimeRange_ZERO == TimeRange_new(Zero, Zero)
\* TimeRange::contains
TimeRange_contains(r, t) == FLe(r.lo, t) /\ FLe(t, r.hi)

\* Box3::is_empty
Box3_is_empty(bb) ==
    \/ FGe(bb.min[1], bb.max[1])
    \/ FGe(bb.min[2], bb.max[2])
    \/ FGe(bb.min[3], bb.max[3])

\* Box3::translate
Box3_translate(bb, offset) ==
    Box3_new(Vec3_add(bb.min, offset), Vec3_add(bb.max, offset))

\* Box3::iter_vertex: vertex i takes max.x when bit 0 of i is set, max.y
\* for bit 1, max.z for bit 2.
Box3_iter_vertex(bb) ==
    [j \in 1..8 |->
        LET i == j - 1 IN
        <<IF i % 2 # 0 THEN bb.max[1] ELSE bb.min[1],
          IF (i \div 2) % 2 # 0 THEN bb.max[2] ELSE bb.min[2],
          IF (i \div 4) % 2 # 0 THEN bb.max[3] ELSE bb.min[3]>>]

\* A shape value.  Every kind keeps all the fields, with Empty's values in
\* the fields it does not use.
Empty ==
    [kind |-> "Empty", rect |-> NoShape, center0 |-> Vec3_ZERO, center1 |-> Vec3_ZERO,
     time |-> TimeRange_ZERO, radius |-> Zero, offset |-> Vec3_ZERO, axis |-> "X",
     rot |-> <<One, Zero>>, bb |-> Box3_EMPTY, children |-> <<>>]

Sphere_new(center, radius) ==
    [Empty EXCEPT !.kind = "Sphere", !.center0 = center, !.radius = radius]

MovingSphere_new(center0, center1, time, radius) ==
    [Empty EXCEPT !.kind = "MovingSphere", !.center0 = center0, !.center1 = center1,
                  !.time = time, !.radius = radius]

Rectangle_new(axis, a, b_min, b_max, c_min, c_max) ==
    [Empty EXCEPT !.kind = "Rectangle",
                  !.rect = Rectangle(axis, a, b_min, b_max, c_min, c_max)]

Translate_new(offset, shape) ==
    [Empty EXCEPT !.kind = "Translate", !.offset = offset, !.children = <<shape>>]

Rotate_new(axis, rot, shape) ==
    [Empty EXCEPT !.kind = "Rotate", !.axis = axis, !.rot = rot, !.children = <<shape>>]

\* Shape::is_empty
RECURSIVE Shape_is_empty(_)
Shape_is_empty(s) ==
    CASE s.kind = "Empty"        -> TRUE
      [] s.kind = "Sphere"       -> FEq(s.radius, Zero)
      [] s.kind = "MovingSphere" -> FEq(s.radius, Zero)
      [] s.kind = "Rectangle"    ->
            FGe(s.rect.b_min, s.rect.b_max) \/ FGe(s.rect.c_min, s.rect.c_max)
      [] s.kind = "Block"        -> Box3_is_empty(s.bb)
      [] s.kind = "Translate"    -> Shape_is_empty(s.children[1])
      [] s.kind = "Rotate"       -> Shape_is_empty(s.children[1])
      [] s.kind = "Union"        -> Len(s.children) = 0

\* A filter that keeps every shape.
NonEmpty_MutKeepAll(shapes) == shapes

\* .filter(|child| !child.is_empty()).collect()
NonEmpty(shapes) == SelectSeq(shapes, LAMBDA c : ~Shape_is_empty(c))

\* Union::new
Union_new(children) ==
    [Empty EXCEPT !.kind = "Union", !.children = NonEmpty(children)]

\* Block::new: the six faces of bb
Block_new(bb) ==
    [Empty EXCEPT
        !.kind = "Block", !.bb = bb,
        !.children = <<Union_new(<<
            Rectangle_new("X", bb.min[1], bb.min[2], bb.max[2], bb.min[3], bb.max[3]),
            Rectangle_new("X", bb.max[1], bb.min[2], bb.max[2], bb.min[3], bb.max[3]),
            Rectangle_new("Y", bb.min[2], bb.min[3], bb.max[3], bb.min[1], bb.max[1]),
            Rectangle_new("Y", bb.max[2], bb.min[3], bb.max[3], bb.min[1], bb.max[1]),
            Rectangle_new("Z", bb.min[3], bb.min[1], bb.max[1], bb.min[2], bb.max[2]),
            Rectangle_new("Z", bb.max[3], bb.min[1], bb.max[1], bb.min[2], bb.max[2])>>)>>]

\* merge_shapes
merge_shapes(shapes) ==
    LET kept == NonEmpty(shapes) IN
    IF Len(kept) = 0 THEN Empty
    ELSE IF Len(kept) = 1 THEN kept[1]
    ELSE Union_new(kept)

\* MovingSphere::center_at
MovingSphere_center_at(s, time) ==
    Vec3_add(s.center0,
             Vec3_mul(FMul(FSub(time, s.time.lo), FSub(s.time.hi, s.time.lo)),
                      Vec3_sub(s.center1, s.center0)))

\* Box3::new(center - r, center + r)
SphereBox(center, radius) ==
    LET r == Vec3_new(radius, radius, radius) IN
    Box3_new(Vec3_sub(center, r), Vec3_add(center, r))

\* The box of the sphere at the first instant of the range only.
MovingSphere_bounding_box_MutInstant(s, time) ==
    SphereBox(MovingSphere_center_at(s, time.lo), s.radius)

\* MovingSphere::bounding_box
MovingSphere_bounding_box(s, time) ==
    Box3_union(SphereBox(MovingSphere_center_at(s, time.lo), s.radius),
               SphereBox(MovingSphere_center_at(s, time.hi), s.radius))

\* .fold(Box3::EMPTY, Box3::union)
RECURSIVE FoldUnion(_, _)
FoldUnion(bb, boxes) ==
    IF Len(boxes) = 0 THEN bb
    ELSE FoldUnion(Box3_union(bb, Head(boxes)), Tail(boxes))

\* Shape::bounding_box(time)
RECURSIVE Shape_bounding_box(_, _)
Shape_bounding_box(s, time) ==
    CASE s.kind = "Empty"        -> Box3_EMPTY
      [] s.kind = "Sphere"       -> SphereBox(s.center0, s.radius)
      [] s.kind = "MovingSphere" -> MovingSphere_bounding_box(s, time)
      [] s.kind = "Rectangle"    -> Rectangle_bounding_box(s.rect)
      [] s.kind = "Block"        -> s.bb
      [] s.kind = "Translate"    ->
            Box3_translate(Shape_bounding_box(s.children[1], time), s.offset)
      [] s.kind = "Rotate"       ->
            LET vs == Box3_iter_vertex(Shape_bounding_box(s.children[1], time)) IN
            FoldUnion(Box3_EMPTY,
                      [j \in 1..8 |->
                          LET q == Vec3_rotate_around(vs[j], s.axis, s.rot) IN
                          Box3_new(q, q)])
      [] s.kind = "Union"        ->
            FoldUnion(Box3_EMPTY,
                      [j \in 1..Len(s.children) |->
                          Shape_bounding_box(s.children[j], time)])

\* Option<Hit>: t and point; exact tells that no square root on the way
\* was rounded.
ShapeMiss(exact) == [some |-> FALSE, t |-> Zero, point |-> Vec3_ZERO, exact |-> exact]
ShapeHit(t, point, exact) == [some |-> TRUE, t |-> t, point |-> point, exact |-> exact]

\* Sphere::hit and MovingSphere::hit for the centre at the ray's time
SphereHit(center, radius, r, t_min, t_max) ==
    LET oc == Vec3_sub(r.origin, center)
        b2 == Vec3_dot(r.dir, oc)
        c  == FSub(Vec3_norm(oc), FMul(radius, radius))
        discriminant == FSub(FMul(b2, b2), c)
        droot == FSqrt(discriminant)
        t_lo  == FSub(FNeg(b2), droot)
        t_hi  == FAdd(FNeg(b2), droot)
        exact == SqrtExact(discriminant)
    IN IF FLt(discriminant, Zero) THEN ShapeMiss(TRUE)
       ELSE IF FLe(t_min, t_lo) /\ FLe(t_lo, t_max)
            THEN ShapeHit(t_lo, Ray_at(r, t_lo), exact)
       ELSE IF FLe(t_min, t_hi) /\ FLe(t_hi, t_max)
            THEN ShapeHit(t_hi, Ray_at(r, t_hi), exact)
       ELSE ShapeMiss(exact)

\* A fold that offers every child the whole interval.
Union_t_best_MutWide(best, t_max) == t_max

\* best.as_ref().map_or(t_max, |h| h.t)
Union_t_best(best, t_max) == IF best.some THEN best.t ELSE t_max

\* Shape::hit; Union::hit is the fold that shrinks t_max to the best hit.
RECURSIVE Shape_hit(_, _, _, _)
RECURSIVE Union_fold(_, _, _, _, _)
Union_fold(children, best, r, t_min, t_max) ==
    IF Len(children) = 0 THEN best
    ELSE LET t_best == Union_t_best(best, t_max)
             h      == Shape_hit(Head(children), r, t_min, t_best)
             next   == IF h.some THEN h ELSE best
         IN Union_fold(Tail(children), [next EXCEPT !.exact = h.exact /\ best.exact],
                       r, t_min, t_max)

Union_hit(s, r, t_min, t_max) == Union_fold(s.children, ShapeMiss(TRUE), r, t_min, t_max)

Shape_hit(s, r, t_min, t_max) ==
    CASE s.kind = "Empty"        -> ShapeMiss(TRUE)
      [] s.kind = "Sphere"       -> SphereHit(s.center0, s.radius, r, t_min, t_max)
      [] s.kind = "MovingSphere" ->
            SphereHit(MovingSphere_center_at(s, r.time), s.radius, r, t_min, t_max)
      [] s.kind = "Rectangle"    ->
            LET t == Rectangle_hit(s.rect, r, t_min, t_max) IN
            IF IsNaN(t) THEN ShapeMiss(TRUE) ELSE ShapeHit(t, Ray_at(r, t), TRUE)
      [] s.kind = "Block"        -> Union_hit(s.children[1], r, t_min, t_max)
      [] s.kind = "Translate"    ->
            LET h == Shape_hit(s.children[1],
                               Ray_new(Vec3_sub(r.origin, s.offset), r.dir, r.time),
                               t_min, t_max)
            IN IF h.some THEN [h EXCEPT !.point = Vec3_add(h.point, s.offset)] ELSE h
      [] s.kind = "Rotate"       ->
            LET h == Shape_hit(s.children[1],
                               Ray_new(Vec3_rotate_around(r.origin, s.axis, RotInverse(s.rot)),
                                       Vec3_rotate_around(r.dir, s.axis, RotInverse(s.rot)),
                                       r.time),
                               t_min, t_max)
            IN IF h.some
               THEN [h EXCEPT !.point = Vec3_rotate_around(h.point, s.axis, s.rot)]
               ELSE h
      [] s.kind = "Union"        -> Union_hit(s, r, t_min, t_max)

\* Vec3::unit: self / self.abs()
Vec3_unit(v) ==
    LET abs == FSqrt(Vec3_norm(v)) IN <<FDiv(v[1], abs), FDiv(v[2], abs), FDiv(v[3], abs)>>

\* Sphere::sampler and MovingSphere::sampler for the centre at the time:
\* Some(SphereSampler::new(center - from, radius)), always.
SphereSamplerFrom(center, radius, from, p) ==
    SphereSampler(Vec3_unit(Vec3_sub(center, from)), radius, p)

\* Rectangle::sampler
Rectangle_sampler(s, from, p) ==
    IF FGe(s.rect.b_min, s.rect.b_max) \/ FGe(s.rect.c_min, s.rect.c_max)
    THEN NoSampler
    ELSE RectangleSampler(p)

\* Shape::sampler(from, time), None being NoSampler. p is the density the
\* stochastic samplers it builds have for the direction that is drawn.
RECURSIVE Shape_sampler_from(_, _, _, _)
Union_sampler(s, from, time, p) ==
    LET samplers == SelectSeq([j \in 1..Len(s.children) |->
                                  Shape_sampler_from(s.children[j], from, time, p)],
                              IsSome)
    IN IF Len(samplers) = 0 THEN NoSampler ELSE MixedSampler_new(samplers)

Shape_sampler_from(s, from, time, p) ==
    CASE s.kind = "Empty"        -> NoSampler
      [] s.kind = "Sphere"       -> SphereSamplerFrom(s.center0, s.radius, from, p)
      [] s.kind = "MovingSphere" ->
            SphereSamplerFrom(MovingSphere_center_at(s, time), s.radius, from, p)
      [] s.kind = "Rectangle"    -> Rectangle_sampler(s, from, p)
      [] s.kind = "Block"        -> Union_sampler(s.children[1], from, time, p)
      [] s.kind = "Translate"    ->
            Shape_sampler_from(s.children[1], Vec3_sub(from, s.offset), time, p)
      [] s.kind = "Rotate"       ->
            LET inner == Shape_sampler_from(
                             s.children[1],
                             Vec3_rotate_around(from, s.axis, RotInverse(s.rot)), time, p)
            IN IF IsSome(inner) THEN RotateSampler(s.axis, s.rot, inner) ELSE NoSampler
      [] s.kind = "Union"        -> Union_sampler(s, from, time, p)

----------------------------------------------------------------------------
\* Shapes under Union::new and Union::hit.

MaxUnion == 3

\* The shapes the unions are built of: two parallel rectangles, a third that
\* a translation puts in the plane of the first, a sphere, and a rectangle
\* without area.
UnionPool ==
    <<Rectangle_new("X", One, Zero, F(2), Zero, F(2)),
      Rectangle_new("X", Q(3, 2), FNeg(One), F(3), FNeg(One), F(3)),
      Translate_new(<<One, Zero, Zero>>,
                    Rectangle_new("X", Zero, FNeg(One), One, FNeg(One), One)),
      Sphere_new(<<F(3), Zero, Zero>>, One),
      Rectangle_new("Y", One, Zero, Zero, Zero, F(2)),
      Rectangle_new("Y", F(2), FNeg(One), F(3), FNeg(One), F(3))>>

\* The sequences of distinct shapes of the pool, in every order.
UnionChildren ==
    UNION {{[j \in 1..k |-> UnionPool[f[j]]] :
              f \in {g \in [1..k -> 1..Len(UnionPool)] :
                        \A a, b \in 1..k : a # b => g[a] # g[b]}} :
           k \in 0..MaxUnion}

\* Union::new(children)
UnionNew ==
    /\ fn = "none"
    /\ \E children \in UnionChildren :
         /\ fn' = "Union::new"
         /\ args' = <<children>>
         /\ out' = <<Union_new(children)>>
    /\ UNCHANGED notFn

\* union.hit(ray, t_min, t_max) on the union just built
UnionHit ==
    /\ fn = "Union::new"
    /\ \E origin \in Origins, dir \in RayDirs, iv \in Intervals :
         LET r == Ray_new(origin, dir, Zero) IN
         /\ fn' = "Union::hit"
         /\ args' = <<out[1], r, iv[1], iv[2]>>
         /\ out' = <<Shape_hit(out[1], r, iv[1], iv[2])>>
    /\ UNCHANGED notFn

InitUnion == IdleTrace /\ IdleMix /\ IdleBvh /\ IdleFn /\ IdleRender /\ IdlePass /\ IdleWrite
NextUnion == UnionNew \/ UnionHit
SpecUnion == InitUnion /\ [][NextUnion]_vars

\* The parameters at which the children of a union are hit one by one
\* within the whole interval.
ChildHits(u, r, t_min, t_max) ==
    {Shape_hit(u.children[j], r, t_min, t_max).t :
        j \in {i \in 1..Len(u.children) :
                 Shape_hit(u.children[i], r, t_min, t_max).some}}

\* The orders in which the children of a union can be stored.
Reorders(u) ==
    {[u EXCEPT !.children = [j \in 1..Len(u.children) |-> u.children[p[j]]]] :
        p \in {g \in [1..Len(u.children) -> 1..Len(u.children)] :
                  \A a, b \in 1..Len(u.children) : a # b => g[a] # g[b]}}

\* C14: Union.hit returns None exactly when no child is hit within
\* [t_min, t_max]; otherwise it returns a hit whose t is the least t at
\* which a child is hit, and so does the union of the same children stored
\* in any other order.
C14_UnionHitIsNearest ==
    fn = "Union::hit" =>
        LET hits == ChildHits(args[1], args[2], args[3], args[4]) IN
        /\ out[1].some <=> hits # {}
        /\ out[1].some => out[1].t = Least(hits)
        /\ \A v \in Reorders(args[1]) :
              LET h == Shape_hit(v, args[2], args[3], args[4]) IN
              h.some = out[1].some /\ (h.some => h.t = out[1].t)

\* A union of three children, all hit at different distances, the first
\* child being the farthest: the nearest one is returned.
C14_Witness ==
    /\ fn = "Union::hit"
    /\ Len(args[1].children) = 3
    /\ Cardinality(ChildHits(args[1], args[2], args[3], args[4])) = 3
    /\ out[1].some
    /\ FLt(out[1].t, Shape_hit(args[1].children[1], args[2], args[3], args[4]).t)

----------------------------------------------------------------------------
\* Shape::hit against Shape::bounding_box.

\* cos and sin of the angles of the rotations: a quarter turn and the angle
\* of the 3-4-5 triangle, whose cosine and sine are rationals.
Quarter == <<Zero, One>>
Pythagorean == <<Q(3, 5), Q(4, 5)>>

\* The moving spheres: one that moves over a range of length 1 and one over
\* a range of length 2.
MovingSpheres ==
    {MovingSphere_new(<<F(3), Zero, Zero>>, <<F(4), Zero, Zero>>,
                      TimeRange_new(Zero, One), One),
     MovingSphere_new(<<F(3), Zero, Zero>>, <<F(3), One, Zero>>,
                      TimeRange_new(Zero, F(2)), One)}

\* The shapes that are hit. A block is built of a box with min < max, as at
\* every call of Block::new in scene.rs.
HitShapes ==
    MovingSpheres \cup
    {Rectangle_new("X", One, Zero, F(2), Zero, F(2)),
     Rectangle_new("Y", One, Zero, Zero, Zero, F(2)),
     Block_new(Box3_new(<<Zero, Zero, Zero>>, <<One, F(2), F(2)>>)),
     Sphere_new(<<F(3), Zero, Zero>>, One),
     Translate_new(<<One, Zero, Zero>>,
                   Rectangle_new("X", Zero, FNeg(One), One, FNeg(One), One)),
     Translate_new(<<Zero, One, Q(3, 2)>>,
                   MovingSphere_new(<<Zero, Zero, Zero>>, <<FNeg(One), Zero, Zero>>,
                                    TimeRange_new(Zero, One), One)),
     Rotate_new("Z", Quarter, Rectangle_new("Y", FNeg(One), FNeg(F(2)), F(2), FNeg(F(2)), F(2))),
     Rotate_new("Z", Pythagorean,
                Block_new(Box3_new(<<FNeg(One), FNeg(One), FNeg(One)>>, <<One, One, One>>))),
     Rotate_new("Y", Pythagorean,
                Translate_new(<<One, Zero, Zero>>,
                              Rectangle_new("Z", One, FNeg(F(2)), F(2), FNeg(F(2)), F(2)))),
     Union_new(<<Rectangle_new("X", Q(3, 2), FNeg(One), F(3), FNeg(One), F(3)),
                 Translate_new(<<Zero, One, Zero>>, Sphere_new(<<F(3), Zero, Zero>>, One))>>)}

\* The times of the rays and the ranges the boxes are asked for.
Times == {Zero, Q(1, 2), One, F(2)}
TimeRanges ==
    {TimeRange_new(lo, hi) : lo \in Times, hi \in Times} \ {TimeRange_new(F(2), Zero)}

\* The origins of the rays: those of the tree's queries and one beyond the
\* spheres.
HitOrigins == Origins \cup {<<F(6), Zero, Zero>>}

\* shape.hit(ray, t_min, t_max)
ShapeHitAt ==
    /\ fn = "none"
    /\ \E shape \in HitShapes, origin \in HitOrigins, dir \in RayDirs,
          time \in Times, iv \in Intervals :
         LET r == Ray_new(origin, dir, time) IN
         /\ fn' = "Shape::hit"
         /\ args' = <<shape, r, iv[1], iv[2]>>
         /\ out' = <<Shape_hit(shape, r, iv[1], iv[2])>>
    /\ UNCHANGED notFn

InitHit == IdleTrace /\ IdleMix /\ IdleBvh /\ IdleFn /\ IdleRender /\ IdlePass /\ IdleWrite
NextHit == ShapeHitAt
SpecHit == InitHit /\ [][NextHit]_vars

\* min <= point <= max, coordinate by coordinate
Inside(bb, point) ==
    \A j \in 1..3 : FLe(bb.min[j], point[j]) /\ FLe(point[j], bb.max[j])

\* C15: the point of a hit of a ray lies inside the shape's bounding box
\* for every time range that contains the time of the ray (for a hit
\* computed without a rounded square root).
C15_HitInsideBoundingBox ==
    (fn = "Shape::hit" /\ out[1].some /\ out[1].exact) =>
        \A range \in TimeRanges :
            TimeRange_contains(range, args[2].time) =>
                Inside(Shape_bounding_box(args[1], range), out[1].point)

\* A moving sphere is hit at a time strictly inside a range, at a point
\* outside the box the sphere has at the start of the range.
C15_Witness ==
    /\ fn = "Shape::hit"
    /\ args[1].kind = "MovingSphere"
    /\ out[1].some /\ out[1].exact
    /\ \E range \in TimeRanges :
          /\ FLt(range.lo, args[2].time) /\ FLt(args[2].time, range.hi)
          /\ ~Inside(SphereBox(MovingSphere_center_at(args[1], range.lo), args[1].radius),
                     out[1].point)

----------------------------------------------------------------------------
\* MovingSphere::center_at.

Centers == {<<Zero, Zero, Zero>>, <<F(3), Zero, Zero>>, <<One, F(2), FNeg(One)>>,
            <<Q(1, 2), Zero, F(4)>>}

\* The time ranges with lo < hi.
ProperRanges == {range \in TimeRanges : FLt(range.lo, range.hi)}

\* sphere.center_at(time) for a sphere that moves over a range lo < hi
CenterAt ==
    /\ fn = "none"
    /\ \E center0 \in Centers, center1 \in Centers, range \in ProperRanges,
          time \in Times :
         LET s == MovingSphere_new(center0, center1, range, One) IN
         /\ fn' = "MovingSphere::center_at"
         /\ args' = <<s, time>>
         /\ out' = <<MovingSphere_center_at(s, time)>>
    /\ UNCHANGED notFn

InitCenter == IdleTrace /\ IdleMix /\ IdleBvh /\ IdleFn /\ IdleRender /\ IdlePass /\ IdleWrite
NextCenter == CenterAt
SpecCenter == InitCenter /\ [][NextCenter]_vars

\* C16: the centre of a moving sphere is center0 at the start of its time
\* range and center1 at the end of it, for every range with lo < hi.
C16_CenterInterpolates ==
    fn = "MovingSphere::center_at" =>
        /\ args[2] = args[1].time.lo => out[1] = args[1].center0
        /\ args[2] = args[1].time.hi => out[1] = args[1].center1

----------------------------------------------------------------------------
\* Shape::sampler, Union::new and merge_shapes.

\* Rectangles with every order of their bounds, and spheres of radius 0,
\* 1 and 6 seen from inside, from the surface and from outside.
SamplerRectangles ==
    {Rectangle_new(axis, One, b_min, b_max, c_min, c_max) :
        axis \in {"X", "Y"}, b_min \in {Zero, One}, b_max \in {Zero, One},
        c_min \in {Zero, One}, c_max \in {Zero, One}}
SamplerSpheres ==
    {Sphere_new(center, radius) :
        center \in {<<Zero, Zero, Zero>>, <<F(3), Zero, Zero>>},
        radius \in {Zero, One, F(6)}}
SamplerOrigins ==
    {<<Zero, Zero, Zero>>, <<F(3), F(4), Zero>>, <<Zero, F(4), Zero>>,
     <<F(3), Zero, Zero>>, <<Zero, FNeg(F(4)), Zero>>, <<F(3), F(8), Zero>>}

\* shape.sampler(from, time)
ShapeSampler ==
    /\ fn = "none"
    /\ \E shape \in SamplerRectangles \cup SamplerSpheres, from \in SamplerOrigins,
          p \in Densities :
         /\ fn' = "Shape::sampler"
         /\ args' = <<shape, from, Zero, p>>
         /\ out' = <<Shape_sampler_from(shape, from, Zero, p)>>
    /\ UNCHANGED notFn

\* merge_shapes(shapes)
MergeShapes ==
    /\ fn = "none"
    /\ \E shapes \in UnionChildren :
         /\ fn' = "merge_shapes"
         /\ args' = <<shapes>>
         /\ out' = <<merge_shapes(shapes)>>
    /\ UNCHANGED notFn

InitSampler == IdleTrace /\ IdleMix /\ IdleBvh /\ IdleFn /\ IdleRender /\ IdlePass /\ IdleWrite
NextSampler == ShapeSampler \/ UnionNew \/ MergeShapes
SpecSampler == InitSampler /\ [][NextSampler]_vars

\* A rectangle with b_min >= b_max or c_min >= c_max.
Degenerate(s) ==
    /\ s.kind = "Rectangle"
    /\ FGe(s.rect.b_min, s.rect.b_max) \/ FGe(s.rect.c_min, s.rect.c_max)

\* The area of the RectangleSampler that Rectangle::sampler builds from the
\* bounds it passes to RectangleSampler::new.
SampledArea(s, from) ==
    LET o == Vec3_rotate_axes(from, s.rect.axis, "X") IN
    FMul(FSub(FSub(s.rect.b_max, o[2]), FSub(s.rect.b_min, o[2])),
         FSub(FSub(s.rect.c_max, o[3]), FSub(s.rect.c_min, o[3])))

Proper(shapes) == SelectSeq(shapes, LAMBDA c : ~Degenerate(c))

\* C17: a rectangle with b_min >= b_max or c_min >= c_max is empty and has
\* no sampler from any point, so every RectangleSampler that is built has a
\* positive area; Union::new and merge_shapes keep the other shapes, in
\* order, and drop such a rectangle.
C17_DegenerateRectangleRefused ==
    /\ (fn = "Shape::sampler" /\ Degenerate(args[1])) =>
          Shape_is_empty(args[1]) /\ ~IsSome(out[1])
    /\ (fn = "Shape::sampler" /\ args[1].kind = "Rectangle" /\ IsSome(out[1])) =>
          FGt(SampledArea(args[1], args[2]), Zero)
    /\ fn = "Union::new" => out[1].children = Proper(args[1])
    /\ fn = "merge_shapes" =>
          LET kept == Proper(args[1]) IN
          out[1] = IF Len(kept) = 0 THEN Empty
                   ELSE IF Len(kept) = 1 THEN kept[1]
                   ELSE [Empty EXCEPT !.kind = "Union", !.children = kept]

\* Union::new was given a rectangle without area between two other shapes
\* and kept the two.
C17_Witness ==
    /\ fn = "Union::new"
    /\ Len(args[1]) = 3
    /\ Degenerate(args[1][2])
    /\ Len(out[1].children) = 2

\* The point lies strictly inside the sphere.
InsideSphere(s, from) ==
    FLt(Vec3_norm(Vec3_sub(s.center0, from)), FMul(s.radius, s.radius))

\* C18: Sphere.sampler(from, time) is None or a constant sampler whenever
\* from lies inside the sphere or the radius is 0; a sampler that is not
\* constant is returned only from a point that is not inside a sphere of
\* positive radius.
C18_SphereSamplerFromInside ==
    (fn = "Shape::sampler" /\ args[1].kind = "Sphere") =>
        /\ (InsideSphere(args[1], args[2]) \/ FEq(args[1].radius, Zero)) =>
              (~IsSome(out[1]) \/ constant(out[1]).tag = "Some")
        /\ (IsSome(out[1]) /\ constant(out[1]).tag = "None") =>
              (FGt(args[1].radius, Zero) /\ ~InsideSphere(args[1], args[2]))

----------------------------------------------------------------------------
\* Object::important_shape over object graphs (engine/src/object.rs).

\* Material::important
Material_important(material) ==
    CASE material = "Lambertian"   -> FALSE
      [] material = "Metal"        -> TRUE
      [] material = "Dielectric"   -> TRUE
      [] material = "DiffuseLight" -> TRUE

\* The objects of a graph: a leaf with a shape, or a wrapper with children.
GraphObject(kind, shape, material, children) ==
    [kind |-> kind, shape |-> shape, material |-> material, children |-> children,
     offset |-> <<One, Zero, F(2)>>, axis |-> "Z", rot |-> Quarter]

SolidObject_new(shape, material) == GraphObject("SolidObject", shape, material, <<>>)
VolumeObject_new(boundary) == GraphObject("VolumeObject", boundary, "Fog", <<>>)
PortalObject_new(source) == GraphObject("PortalObject", source, "None", <<>>)
TranslateObject_new(object) == GraphObject("TranslateObject", Empty, "None", <<object>>)
RotateObject_new(object) == GraphObject("RotateObject", Empty, "None", <<object>>)
GlobalVolume_new(object) == GraphObject("GlobalVolume", Empty, "Fog", <<object>>)
Objects_of(children) == GraphObject("Objects", Empty, "None", children)

\* Object::important_shape
RECURSIVE important_shape(_)
important_shape(o) ==
    CASE o.kind = "SolidObject"     ->
            IF Material_important(o.material) THEN o.shape ELSE Empty
      [] o.kind = "VolumeObject"    -> Empty
      [] o.kind = "PortalObject"    -> Empty
      [] o.kind = "TranslateObject" ->
            Translate_new(o.offset, important_shape(o.children[1]))
      [] o.kind = "RotateObject"    ->
            Rotate_new(o.axis, o.rot, important_shape(o.children[1]))
      [] o.kind = "GlobalVolume"    -> important_shape(o.children[1])
      [] o.kind = "Objects"         ->
            merge_shapes([j \in 1..Len(o.children) |-> important_shape(o.children[j])])

\* The shapes of the solids: two with a surface, and three that is_empty()
\* calls empty (a rectangle without area, a sphere of radius 0, a block
\* without depth).
GraphShapes ==
    {Sphere_new(<<F(3), Zero, Zero>>, One),
     Rectangle_new("X", One, Zero, F(2), Zero, F(2)),
     Rectangle_new("Y", One, Zero, Zero, Zero, F(2)),
     Sphere_new(<<Zero, F(4), Zero>>, Zero),
     Block_new(Box3_new(<<One, Zero, Zero>>, <<One, F(2), F(2)>>))}

GraphMaterials == {"Lambertian", "Metal", "Dielectric", "DiffuseLight"}

GraphLeaves ==
    {SolidObject_new(shape, material) : shape \in GraphShapes, material \in GraphMaterials}
    \cup {VolumeObject_new(Sphere_new(<<F(3), Zero, Zero>>, One)),
          PortalObject_new(Rectangle_new("X", One, Zero, F(2), Zero, F(2)))}

\* The leaves that the Objects nodes are built of: solids with and without
\* an important material over a shape with a surface and two without, a
\* volume and a portal.
GroupLeaves ==
    {SolidObject_new(shape, material) :
        shape \in {Sphere_new(<<F(3), Zero, Zero>>, One),
                   Rectangle_new("Y", One, Zero, Zero, Zero, F(2)),
                   Sphere_new(<<Zero, F(4), Zero>>, Zero)},
        material \in {"Lambertian", "Metal"}}
    \cup {VolumeObject_new(Sphere_new(<<F(3), Zero, Zero>>, One)),
          PortalObject_new(Rectangle_new("X", One, Zero, F(2), Zero, F(2)))}

Wrappers(objs) ==
    {TranslateObject_new(o) : o \in objs}
    \cup {RotateObject_new(o) : o \in objs}
    \cup {GlobalVolume_new(o) : o \in objs}

MaxGroup == 2

\* Objects nodes of at most MaxGroup children.
Groups(objs) ==
    UNION {{Objects_of(children) : children \in [1..k -> objs]} : k \in 0..MaxGroup}

\* The graphs: leaves, wrapped leaves, groups of leaves, wrapped groups,
\* and groups of a wrapped leaf or of a group with a leaf.
Graphs ==
    GraphLeaves \cup Wrappers(GraphLeaves) \cup Groups(GroupLeaves)
    \cup Wrappers(Groups(GroupLeaves))
    \cup {Objects_of(<<w, o>>) : w \in Wrappers(GroupLeaves), o \in GroupLeaves}
    \cup {Objects_of(<<Objects_of(<<a>>), o>>) : a \in GroupLeaves, o \in GroupLeaves}

\* world.object.important_shape()
ImportantShape ==
    /\ fn = "none"
    /\ \E graph \in Graphs :
         /\ fn' = "Object::important_shape"
         /\ args' = <<graph>>
         /\ out' = <<important_shape(graph)>>
    /\ UNCHANGED notFn

InitGraph == IdleTrace /\ IdleMix /\ IdleBvh /\ IdleFn /\ IdleRender /\ IdlePass /\ IdleWrite
NextGraph == ImportantShape
SpecGraph == InitGraph /\ [][NextGraph]_vars

\* The materials that are flagged important.
Flagged == {"Metal", "Dielectric", "DiffuseLight"}

\* The solids of a graph whose material is important and whose shape is
\* not empty.
RECURSIVE ImportantSolids(_)
ImportantSolids(o) ==
    IF o.kind = "SolidObject"
    THEN (IF o.material \in Flagged /\ ~Shape_is_empty(o.shape) THEN {o} ELSE {})
    ELSE UNION {ImportantSolids(o.children[j]) : j \in 1..Len(o.children)}

\* The solids of important material that no Objects node lies above.
RECURSIVE UnmergedSolids(_)
UnmergedSolids(o) ==
    IF o.kind = "SolidObject"
    THEN (IF o.material \in Flagged THEN {o} ELSE {})
    ELSE IF o.kind = "Objects" THEN {}
    ELSE UNION {UnmergedSolids(o.children[j]) : j \in 1..Len(o.children)}

\* sampler() = None from every point
NeverSampled(shape) ==
    \A from \in SamplerOrigins : ~IsSome(Shape_sampler_from(shape, from, Zero, Zero))

\* C19 as stated: the important shape is empty, that is is_empty() = true
\* and sampler() = None from every point, if and only if the graph has no
\* solid of important material and non-empty shape.
C19_EmptyIffNoImportantSolid ==
    fn = "Object::important_shape" =>
        ((Shape_is_empty(out[1]) /\ NeverSampled(out[1]))
            <=> ImportantSolids(args[1]) = {})

\* What the code does keep: is_empty() = true exactly for the graphs without
\* a solid of important material and non-empty shape; such a graph is never
\* sampled when every solid of important material lies under an Objects
\* node, and a graph with an important solid of non-empty shape is sampled
\* from every point.
ImportantShapeMerged ==
    fn = "Object::important_shape" =>
        /\ Shape_is_empty(out[1]) <=> ImportantSolids(args[1]) = {}
        /\ (ImportantSolids(args[1]) = {} /\ UnmergedSolids(args[1]) = {}) =>
              NeverSampled(out[1])
        /\ ImportantSolids(args[1]) # {} =>
              \A from \in SamplerOrigins :
                  IsSome(Shape_sampler_from(out[1], from, Zero, Zero))

----------------------------------------------------------------------------
\* Renderer::trace and Renderer::encode (engine/src/renderer.rs).

MaxPasses == 2

\* clamp(x, lo, hi) of color.rs
clamp(x, lo, hi) == IF FLt(x, lo) THEN lo ELSE IF FGt(x, hi) THEN hi ELSE x

\* Color::clamp(lo, hi): every channel clamped.
Color_clamp(c, lo, hi) == <<clamp(c[1], lo, hi), clamp(c[2], lo, hi), clamp(c[3], lo, hi)>>

\* Color / f64
ColorDiv(c, m) == <<FDiv(c[1], m), FDiv(c[2], m), FDiv(c[3], m)>>

\* Color::gamma2
Color_gamma2(c) == <<FSqrt(c[1]), FSqrt(c[2]), FSqrt(c[3])>>

\* f64 as u8: truncated, saturated, 0 for NaN
AsU8(x) ==
    IF IsNaN(x) THEN 0
    ELSE IF x = PInf THEN 255
    ELSE IF x[1] < 0 THEN 0
    ELSE IF x[1] \div x[2] > 255 THEN 255 ELSE x[1] \div x[2]

\* Color::encode
Color_encode(c) ==
    [j \in 1..3 |-> AsU8(clamp(FMul(c[j], Q(255999, 1000)), Zero, Q(255999, 1000)))]

\* The upper bound of the clamp of Renderer::trace. It is 1e10 in the code;
\* 1e5 stands for it, far above every radiance of the model, because the
\* products of a comparison with 1e10 exceed the integers of TLC.
TraceClampMax == F(100000)

\* What trace_ray returns for the ray of a pixel: black, grey, a colour
\* brighter than white, and the NaN colour of a bounce of density 0/0.
Radiances ==
    {BLACK, Color(Q(1, 4), Q(1, 4), Q(1, 4)), Color(F(4), One, Zero), Color(NaN, Zero, Zero)}

\* A step that forgets the running sum.
Accumulate_MutOverwrite(sum, color) == color

\* *sum = *sum + color
Accumulate(sum, color) == ColorAdd(sum, color)

\* *sum / (self.samples as f64)
Normalize(sum, n) == ColorDiv(sum, F(n))

\* Renderer::trace: one pass over every pixel, then the sums and the counter
RendererTrace ==
    /\ samples < MaxPasses
    /\ \E traced \in [Pixels -> Radiances] :
         LET colors == [k \in Pixels |-> Color_clamp(traced[k], Zero, TraceClampMax)] IN
         /\ sums' = [k \in Pixels |-> Accumulate(sums[k], colors[k])]
         /\ samples' = samples + 1
         /\ passes' = Append(passes, colors)
    /\ UNCHANGED image
    /\ UNCHANGED notRender

\* Renderer::encode
RendererEncode ==
    /\ image' = <<[k \in Pixels |->
                     Color_encode(Color_gamma2(
                         Color_clamp(Normalize(sums[k], samples), Zero, One)))]>>
    /\ UNCHANGED <<samples, sums, passes>>
    /\ UNCHANGED notRender

InitRender == IdleTrace /\ IdleMix /\ IdleBvh /\ IdleFn /\ IdleRender /\ IdlePass /\ IdleWrite
NextRender == RendererTrace \/ RendererEncode
SpecRender == InitRender /\ [][NextRender]_vars

\* The colours of pixel k in the first n passes, added up one by one.
RECURSIVE SumOfPasses(_, _)
SumOfPasses(k, n) ==
    IF n = 0 THEN BLACK ELSE ColorAdd(SumOfPasses(k, n - 1), passes[n][k])

\* The bytes of a colour divided by n: clamped to [0, 1], gamma 2, 8 bits.
EncodedMean(sum, n) ==
    Color_encode(Color_gamma2(Color_clamp(ColorDiv(sum, F(n)), Zero, One)))

\* C20: after n >= 1 completed passes the counter of samples is n and the
\* running sum of every pixel is the sum of exactly the n colours the
\* passes gave it; encode() returns, for every pixel, the bytes of that sum
\* divided by that n.
C20_SumsOfNPasses ==
    /\ [](Len(passes) >= 1 =>
            /\ samples = Len(passes)
            /\ \A k \in Pixels : sums[k] = SumOfPasses(k, Len(passes)))
    /\ [][(image' # image /\ Len(passes) >= 1) =>
            image' = <<[k \in Pixels |->
                          EncodedMean(SumOfPasses(k, Len(passes)), Len(passes))]>>]_vars

\* Two passes gave the first pixel two colours that are not black, and the
\* image encoded after them shows the pixel.
C20_Witness ==
    /\ samples = 2
    /\ passes[1][1] # BLACK /\ passes[2][1] # BLACK /\ passes[1][1] # passes[2][1]
    /\ ~ColorHasNaN(sums[1])
    /\ image # <<>>
    /\ image[1][1] = EncodedMean(sums[1], 2)
    /\ image[1][1][1] > 0

----------------------------------------------------------------------------
\* Renderer::trace closure by closure (engine/src/renderer.rs): the parallel
\* iterator hands the closure of pixel k the element k of the vector of
\* generators; collect() returns when every closure has returned.

\* RenderParams of the image of Pixels; samples_per_pixel is read by the
\* renderer of rust/src/renderer.rs only.
Params == [width |-> 2, height |-> 1, samples_per_pixel |-> 2]

\* let i = k % width, for the index k = 0, 1, ... of the buffer
PixelColumn(k, width) == k % width

\* A row numbering that counts from the bottom.
PixelRow_MutBottomUp(k, width, height) == k \div width

\* let j = (height - 1) - k / width
PixelRow(k, width, height) == (height - 1) - (k \div width)

\* (i + rng.gen::<f64>()) / width
Jitter(i, x, width) == FDiv(FAdd(F(i), x), F(width))

\* What the rays through a pixel meet: a path ends at the first value
\* drawn below the view of its pixel.
Views == {Q(1, 16), Q(1, 2), Q(15, 16)}

\* What camera.ray and trace_ray make of u, v and the values drawn: a
\* colour that is a function of them, black for a path cut by its budget.
PathColor(u, v, bounces, cut) ==
    IF cut THEN BLACK ELSE Color(u, v, Q(1, bounces + 1))

\* A generator every closure draws from.
RngOf_MutShared(k) == 1

\* rngs.par_iter_mut().enumerate(): the closure of pixel k gets generator k
RngOf(k) == k

\* let mut rngs = std::mem::take(&mut self.rngs), and the closures spawned
PassStart ==
    /\ phase = "idle"
    /\ samples < MaxPasses
    /\ taken' = rngs
    /\ rngs' = <<>>
    /\ unit' = [k \in Pixels |-> [NoUnit EXCEPT !.pc = "u"]]
    /\ phase' = "sampling"
    /\ UNCHANGED <<views, collected, cursor, renderVars>>
    /\ UNCHANGED notPass

\* let u = (i as f64 + rng.gen::<f64>()) / (self.params.width as f64)
UnitU(k) ==
    /\ phase = "sampling"
    /\ unit[k].pc = "u"
    /\ LET g == RngOf(k)
           i == PixelColumn(k - 1, Params.width)
       IN /\ unit' = [unit EXCEPT ![k].u = Jitter(i, Rng_gen(taken[g]), Params.width),
                                  ![k].pc = "v"]
          /\ taken' = [taken EXCEPT ![g] = Rng_next(@)]
    /\ UNCHANGED <<views, phase, rngs, collected, cursor, renderVars>>
    /\ UNCHANGED notPass

\* let v = (j as f64 + rng.gen::<f64>()) / (self.params.height as f64)
UnitV(k) ==
    /\ phase = "sampling"
    /\ unit[k].pc = "v"
    /\ LET g == RngOf(k)
           j == PixelRow(k - 1, Params.width, Params.height)
       IN /\ unit' = [unit EXCEPT ![k].v = Jitter(j, Rng_gen(taken[g]), Params.height),
                                  ![k].pc = "ray"]
          /\ taken' = [taken EXCEPT ![g] = Rng_next(@)]
    /\ UNCHANGED <<views, phase, rngs, collected, cursor, renderVars>>
    /\ UNCHANGED notPass

\* One value drawn by camera.ray or trace_ray in the closure `me` whose
\* rays meet `view`: the path ends, is cut by its budget, or goes on.
Bounce(me, view, rng) ==
    LET ends == FLt(Rng_gen(rng), view)
        cut == me.bounces + 1 >= MaxLimit
    IN IF ends \/ cut
       THEN [me EXCEPT !.pc = "done",
                       !.color = Color_clamp(PathColor(me.u, me.v, me.bounces, ~ends),
                                             Zero, TraceClampMax)]
       ELSE [me EXCEPT !.bounces = @ + 1]

\* camera.ray(u, v, rng) and trace_ray(&ray, .., rng, 50).clamp(0.0, 1e10),
\* one value drawn at a time; the closure returns its colour.
UnitBounce(k) ==
    /\ phase = "sampling"
    /\ unit[k].pc = "ray"
    /\ LET g == RngOf(k)
       IN /\ unit' = [unit EXCEPT ![k] = Bounce(@, views[k], taken[g])]
          /\ taken' = [taken EXCEPT ![g] = Rng_next(@)]
    /\ UNCHANGED <<views, phase, rngs, collected, cursor, renderVars>>
    /\ UNCHANGED notPass

\* A collect() that returns with the first closure.
AllDone_MutAny == \E k \in Pixels : unit[k].pc = "done"

\* .collect() returns when every closure has returned
AllDone == \A k \in Pixels : unit[k].pc = "done"

\* let colors: Vec<Color> = ... .collect(); self.rngs = rngs
PassCollect ==
    /\ phase = "sampling"
    /\ AllDone
    /\ collected' = [k \in Pixels |-> unit[k].color]
    /\ rngs' = taken
    /\ taken' = <<>>
    /\ unit' = [k \in Pixels |-> NoUnit]
    /\ phase' = "collected"
    /\ UNCHANGED <<views, cursor, renderVars>>
    /\ UNCHANGED notPass

\* self.sums.iter_mut().zip(colors).for_each(..); self.samples += 1
PassAccumulate ==
    /\ phase = "collected"
    /\ sums' = [k \in Pixels |-> Accumulate(sums[k], collected[k])]
    /\ samples' = samples + 1
    /\ passes' = Append(passes, collected)
    /\ collected' = <<>>
    /\ phase' = "idle"
    /\ UNCHANGED <<views, rngs, taken, unit, cursor, image>>
    /\ UNCHANGED notPass

\* Renderer::encode between two calls of trace()
PassEncode ==
    /\ phase = "idle"
    /\ samples >= 1
    /\ RendererEncode

\* ---- render of rust/src/renderer.rs: pixel after pixel, and for each
\* pixel one closure per generator of rngs, in parallel ----

\* the generators main() hands to render(): one per sample of a pixel
Samples == 1..Params.samples_per_pixel

\* const BASE_SEED: u64 = 28; Rng::seed_from_u64(BASE_SEED + i as u64)
SampleRngs == [s \in Samples |-> Rng_seed_from_u64(28 + (s - 1))]

\* The pixel of the scene behind column i of row j, rows counted from the
\* bottom as v is.
PixelAt(i, j) == (Params.height - 1 - j) * Params.width + i + 1

\* .sum::<Color>() of the colours c[1], .., c[n]
RECURSIVE ColorSum(_, _)
ColorSum(c, n) == IF n = 0 THEN BLACK ELSE ColorAdd(ColorSum(c, n - 1), c[n])

\* for j in (0..params.height).rev() { for i in 0..params.width {
RustStart ==
    /\ phase = "idle"
    /\ samples = 0
    /\ image = <<>>
    /\ taken' = SampleRngs
    /\ rngs' = <<>>
    /\ cursor' = [i |-> 0, j |-> Params.height - 1]
    /\ unit' = [s \in Samples |-> [NoUnit EXCEPT !.pc = "u"]]
    /\ phase' = "pixel"
    /\ UNCHANGED <<views, collected, renderVars>>
    /\ UNCHANGED notPass

\* let u = (i as f64 + rng.gen::<f64>()) / (params.width as f64)
RustU(s) ==
    /\ phase = "pixel"
    /\ unit[s].pc = "u"
    /\ unit' = [unit EXCEPT ![s].u = Jitter(cursor.i, Rng_gen(taken[s]), Params.width),
                            ![s].pc = "v"]
    /\ taken' = [taken EXCEPT ![s] = Rng_next(@)]
    /\ UNCHANGED <<views, phase, rngs, collected, cursor, renderVars>>
    /\ UNCHANGED notPass

\* let v = (j as f64 + rng.gen::<f64>()) / (params.height as f64)
RustV(s) ==
    /\ phase = "pixel"
    /\ unit[s].pc = "v"
    /\ unit' = [unit EXCEPT ![s].v = Jitter(cursor.j, Rng_gen(taken[s]), Params.height),
                            ![s].pc = "ray"]
    /\ taken' = [taken EXCEPT ![s] = Rng_next(@)]
    /\ UNCHANGED <<views, phase, rngs, collected, cursor, renderVars>>
    /\ UNCHANGED notPass

\* camera.ray(u, v, rng); trace_ray(&ray, .., rng, 50).clamp(0.0, 1e10)
RustBounce(s) ==
    /\ phase = "pixel"
    /\ unit[s].pc = "ray"
    /\ unit' = [unit EXCEPT ![s] = Bounce(@, views[PixelAt(cursor.i, cursor.j)], taken[s])]
    /\ taken' = [taken EXCEPT ![s] = Rng_next(@)]
    /\ UNCHANGED <<views, phase, rngs, collected, cursor, renderVars>>
    /\ UNCHANGED notPass

\* .sum::<Color>() / samples_per_pixel, clamp, gamma2,
\* writer.write(&color.encode())?; then the next i, the next j. image is
\* here what the writer was given so far, three bytes per pixel.
RustWrite ==
    /\ phase = "pixel"
    /\ \A s \in Samples : unit[s].pc = "done"
    /\ LET color == ColorDiv(ColorSum([s \in Samples |-> unit[s].color],
                                      Params.samples_per_pixel),
                             F(Params.samples_per_pixel))
       IN image' = Append(image, Color_encode(Color_gamma2(Color_clamp(color, Zero, One))))
    /\ IF cursor.i + 1 < Params.width
       THEN /\ cursor' = [cursor EXCEPT !.i = @ + 1]
            /\ unit' = [s \in Samples |-> [NoUnit EXCEPT !.pc = "u"]]
            /\ phase' = "pixel"
       ELSE IF cursor.j > 0
       THEN /\ cursor' = [i |-> 0, j |-> cursor.j - 1]
            /\ unit' = [s \in Samples |-> [NoUnit EXCEPT !.pc = "u"]]
            /\ phase' = "pixel"
       ELSE /\ cursor' = cursor
            /\ unit' = [s \in Samples |-> NoUnit]
            /\ phase' = "rendered"
    /\ UNCHANGED <<views, rngs, taken, collected, samples, sums, passes>>
    /\ UNCHANGED notPass

\* writer.write(..)? returned an error: render() returns it
RustWriteFails ==
    /\ phase = "pixel"
    /\ \A s \in Samples : unit[s].pc = "done"
    /\ phase' = "failed"
    /\ UNCHANGED <<views, rngs, taken, unit, collected, cursor, renderVars>>
    /\ UNCHANGED notPass

InitPass ==
    /\ IdleTrace /\ IdleMix /\ IdleBvh /\ IdleFn /\ IdleRender /\ IdleWrite
    /\ views \in [Pixels -> Views]
    /\ phase = "idle"
    /\ rngs = [k \in Pixels |-> Rng_seed_from_u64(k - 1)]
    /\ taken = <<>>
    /\ unit = [k \in Pixels |-> NoUnit]
    /\ collected = <<>>
    /\ cursor = [i |-> 0, j |-> 0]

NextPass ==
    \/ PassStart
    \/ \E k \in Pixels : UnitU(k)
    \/ \E k \in Pixels : UnitV(k)
    \/ \E k \in Pixels : UnitBounce(k)
    \/ PassCollect
    \/ PassAccumulate
    \/ PassEncode
    \/ RustStart
    \/ \E s \in Samples : RustU(s)
    \/ \E s \in Samples : RustV(s)
    \/ \E s \in Samples : RustBounce(s)
    \/ RustWrite
    \/ RustWriteFails

SpecPass == InitPass /\ [][NextPass]_vars

\* C21: during a sampling pass the generator of pixel j changes only in a
\* step of the closure of pixel j, which changes no other closure, and no
\* step of the pass writes the sums or the counter of samples; collect()
\* returns only when every closure has returned; the sums and the counter
\* change only in the accumulation after it; the next pass starts only
\* when that accumulation is over.
C21_UnitsShareNothing ==
    /\ [][\A j \in Pixels :
            (phase = "sampling" /\ phase' = "sampling" /\ taken'[j] # taken[j]) =>
                /\ unit'[j] # unit[j]
                /\ \A i \in Pixels \ {j} : unit'[i] = unit[i] /\ taken'[i] = taken[i]]_vars
    /\ [][phase = "sampling" => (sums' = sums /\ samples' = samples)]_vars
    /\ [][(phase = "sampling" /\ phase' # "sampling") =>
            (phase' = "collected" /\ \A k \in Pixels : unit[k].pc = "done")]_vars
    /\ [][(sums' # sums \/ samples' # samples) =>
            (phase = "collected" /\ phase' = "idle" /\ samples' = samples + 1)]_vars
    /\ [][(phase # "sampling" /\ phase' = "sampling") =>
            (phase = "idle" /\ samples = Len(passes))]_vars

\* In the second pass the closure of the second pixel has returned while
\* the closure of the first pixel has drawn one value only.
C21_Witness ==
    /\ phase = "sampling"
    /\ samples = 1
    /\ unit[2].pc = "done"
    /\ unit[1].pc = "v"
    /\ rngs = <<>>
    /\ sums[1] # BLACK

\* The closure run alone on the generator rng, for the pixel of column i and
\* row j whose rays meet `view`: the colour it returns and the generator it
\* leaves.
RECURSIVE BounceAlone(_, _, _)
BounceAlone(me, view, rng) ==
    LET after == Bounce(me, view, rng)
    IN IF after.pc = "done" THEN [color |-> after.color, rng |-> Rng_next(rng)]
       ELSE BounceAlone(after, view, Rng_next(rng))

ClosureAlone(view, i, j, rng) ==
    LET u == Jitter(i, Rng_gen(rng), Params.width)
        v == Jitter(j, Rng_gen(Rng_next(rng)), Params.height)
    IN BounceAlone([NoUnit EXCEPT !.pc = "ray", !.u = u, !.v = v], view,
                   Rng_next(Rng_next(rng)))

\* Pixel k of the Renderer after n passes, computed from the seed of its own
\* generator and from what its own rays meet: its sum and its generator.
RECURSIVE PixelAlone(_, _, _)
PixelAlone(view, k, n) ==
    IF n = 0 THEN [sum |-> BLACK, rng |-> Rng_seed_from_u64(k - 1)]
    ELSE LET before == PixelAlone(view, k, n - 1)
             c == ClosureAlone(view, PixelColumn(k - 1, Params.width),
                               PixelRow(k - 1, Params.width, Params.height), before.rng)
         IN [sum |-> ColorAdd(before.sum, c.color), rng |-> c.rng]

\* The first n pixels of render() of rust/src/renderer.rs computed one
\* closure after the other in the scene v: the bytes written and the
\* generators left.
RECURSIVE RenderAlone(_, _)
RenderAlone(v, n) ==
    IF n = 0 THEN [stream |-> <<>>, rngs |-> SampleRngs]
    ELSE LET before == RenderAlone(v, n - 1)
             c == [s \in Samples |->
                      ClosureAlone(v[n], PixelColumn(n - 1, Params.width),
                                   PixelRow(n - 1, Params.width, Params.height),
                                   before.rngs[s])]
             color == ColorDiv(ColorSum([s \in Samples |-> c[s].color],
                                        Params.samples_per_pixel),
                               F(Params.samples_per_pixel))
         IN [stream |-> Append(before.stream,
                               Color_encode(Color_gamma2(Color_clamp(color, Zero, One)))),
             rngs |-> [s \in Samples |-> c[s].rng]]

\* Renderer: whatever the order of the steps of the closures, between two
\* passes the sum and the generator of every pixel are those computed from
\* the seed and the view of that pixel alone, and what encode() returned is
\* the bytes of these sums after one of the passes.
EngineDeterministic ==
    /\ phase = "idle" =>
            \A k \in Pixels :
                /\ sums[k] = PixelAlone(views[k], k, samples).sum
                /\ rngs[k] = PixelAlone(views[k], k, samples).rng
    /\ (phase \in {"idle", "sampling", "collected"} /\ image # <<>>) =>
            \E n \in 1..samples :
                image = <<[k \in Pixels |->
                             EncodedMean(PixelAlone(views[k], k, n).sum, n)]>>

RustPhases == {"pixel", "rendered", "failed"}

\* render() of rust/src/renderer.rs: whatever the order of the steps of the
\* closures, the bytes written are those of the closures run one after the
\* other.
RustDeterministic ==
    phase \in RustPhases => image = RenderAlone(views, Len(image)).stream

TwoPassesEncoded ==
    /\ phase = "idle"
    /\ samples = 2
    /\ views[1] # views[2]
    /\ image # <<>>
    /\ sums[1] # sums[2]
    /\ sums[2] = PixelAlone(views[2], 2, 2).sum

----------------------------------------------------------------------------
\* The order of the pixels: Renderer::trace and Renderer::encode
\* (engine/src/renderer.rs) and the loops of render (rust/src/renderer.rs),
\* for images of every width and height up to MaxSide.

MaxSide == 3

\* values of rng.gen::<f64>(): the least, one in the middle, the greatest
\* of the stream
Draws == {Zero, Q(1, 2), Q(15, 16)}

\* What the closure of Renderer::trace computes for the element k of
\* rngs.par_iter_mut().enumerate() when the generator gives x, then y.
TraceAt(k, width, height, x, y) ==
    LET i == PixelColumn(k, width)
        j == PixelRow(k, width, height)
    IN [i |-> i, j |-> j, u |-> Jitter(i, x, width), v |-> Jitter(j, y, height)]

\* flat_map(|color| color.encode()): the bytes of the colours one after the
\* other
RECURSIVE FlatMapEncode(_)
FlatMapEncode(cs) ==
    IF cs = <<>> THEN <<>>
    ELSE <<cs[1][1], cs[1][2], cs[1][3]>> \o FlatMapEncode(Tail(cs))

\* Renderer::encode
Renderer_encode(ss, n) ==
    FlatMapEncode([k \in 1..Len(ss) |->
        Color_encode(Color_gamma2(Color_clamp(Normalize(ss[k], n), Zero, One)))])

\* for j in (0..height).rev() { for i in 0..width { .. } }: the <<i, j>> of
\* the iterations from <<i, j>> on, in the order they run
RECURSIVE LoopOrder(_, _, _, _)
LoopOrder(i, j, width, height) ==
    IF i < width THEN <<[i |-> i, j |-> j]>> \o LoopOrder(i + 1, j, width, height)
    ELSE IF j > 0 THEN LoopOrder(0, j - 1, width, height)
    ELSE <<>>

\* sums that tell the pixels of an image apart
Palette == <<Color(One, Zero, Zero), Color(Zero, One, Q(1, 4)), Color(Q(1, 4), Q(1, 4), One),
             Color(F(4), NaN, One)>>

GridTrace ==
    /\ \E width \in 1..MaxSide, height \in 1..MaxSide, x \in Draws, y \in Draws :
         \E k \in 0..(width * height - 1) :
            /\ fn' = "Renderer::trace"
            /\ args' = <<width, height, k, x, y>>
            /\ out' = <<TraceAt(k, width, height, x, y)>>
    /\ UNCHANGED notFn

GridEncode ==
    /\ \E width \in 1..MaxSide, height \in 1..MaxSide, shift \in 0..3, n \in 1..MaxPasses :
         LET ss == [k \in 1..(width * height) |-> Palette[((k + shift) % 4) + 1]]
         IN /\ fn' = "Renderer::encode"
            /\ args' = <<width, height, ss, n>>
            /\ out' = <<Renderer_encode(ss, n)>>
    /\ UNCHANGED notFn

GridLoops ==
    /\ \E width \in 1..MaxSide, height \in 1..MaxSide :
         /\ fn' = "render"
         /\ args' = <<width, height>>
         /\ out' = <<LoopOrder(0, height - 1, width, height)>>
    /\ UNCHANGED notFn

InitGrid == IdleTrace /\ IdleMix /\ IdleBvh /\ IdleFn /\ IdleRender /\ IdlePass /\ IdleWrite
NextGrid == GridTrace \/ GridEncode \/ GridLoops
SpecGrid == InitGrid /\ [][NextGrid]_vars

\* C23: encode() returns width * height * 3 bytes, the three bytes of the
\* pixel of index k at 3k, 3k + 1, 3k + 2; the closure of index k samples
\* column i = k mod width of the row floor(k / width) counted from the top,
\* that is of row j = height - 1 - floor(k / width) counted from the bottom:
\* 0 <= i < width, 0 <= j < height, k = (height - 1 - j) * width + i,
\* i / width <= u < (i + 1) / width and j / height <= v < (j + 1) / height;
\* the loops of render() of rust/src/renderer.rs visit the pixels in the
\* same order.
C23_TopToBottomRows ==
    /\ fn = "Renderer::trace" =>
         LET width == args[1]
             height == args[2]
             k == args[3]
             at == out[1]
         IN /\ at.i = k % width
            /\ at.j = height - 1 - (k \div width)
            /\ at.i \in 0..(width - 1)
            /\ at.j \in 0..(height - 1)
            /\ k = (height - 1 - at.j) * width + at.i
            /\ FLe(Q(at.i, width), at.u) /\ FLt(at.u, Q(at.i + 1, width))
            /\ FLe(Q(at.j, height), at.v) /\ FLt(at.v, Q(at.j + 1, height))
    /\ fn = "Renderer::encode" =>
         LET width == args[1]
             height == args[2]
         IN /\ Len(out[1]) = width * height * 3
            /\ \A k \in 0..(width * height - 1) : \A c \in 1..3 :
                  out[1][3 * k + c] = EncodedMean(args[3][k + 1], args[4])[c]
    /\ fn = "render" =>
         LET width == args[1]
             height == args[2]
         IN /\ Len(out[1]) = width * height
            /\ \A k \in 0..(width * height - 1) :
                  out[1][k + 1] = [i |-> k % width, j |-> height - 1 - (k \div width)]

\* The closure of index 4 of an image three pixels wide and two high: the
\* second pixel of the bottom row, with the greatest values drawn.
C23_Witness ==
    /\ fn = "Renderer::trace"
    /\ args = <<3, 2, 4, Q(15, 16), Q(15, 16)>>
    /\ out[1].i = 1 /\ out[1].j = 0
    /\ out[1].u = Q(31, 48) /\ out[1].v = Q(15, 32)

----------------------------------------------------------------------------
\* render (engine/src/renderer.rs) with the EagerWriter of src/main.rs.

MaxSamples == 3

\* EagerWriter::want_write: samples == self.samples_per_pixel ||
\* samples % self.period == 0; the remainder by a period of 0 panics
EagerWriter_want_write(w, n) ==
    IF n = w.samples_per_pixel THEN "true"
    ELSE IF w.period = 0 THEN "panic"
    ELSE IF n % w.period = 0 THEN "true" ELSE "false"

\* A render that goes on after a failed write.
AfterWrite_MutIgnore(ok) == "trace"

\* writer.write(samples, &renderer.encode())?: an error returns from render
AfterWrite(ok) == IF ok THEN "trace" ELSE "err"

\* what trace_ray returns in the passes of render
WriterRadiances == {Color(Q(1, 4), Q(1, 4), Q(1, 4)), Color(F(4), One, Zero)}

\* render(&writer, camera, &world, params, samples_per_pixel):
\* let mut renderer = Renderer::new(params, camera, world)
RenderCall ==
    /\ outcome = "none"
    /\ \E spp \in 0..MaxSamples, period \in 0..MaxSamples :
         writer' = [period |-> period, samples_per_pixel |-> spp, fails |-> {}]
    /\ outcome' = "trace"
    /\ UNCHANGED <<written, renderVars>>
    /\ UNCHANGED notWrite

\* for i in 0..samples_per_pixel { renderer.trace(); let samples = i + 1;
RenderPass ==
    /\ outcome = "trace"
    /\ samples < writer.samples_per_pixel
    /\ \E traced \in [Pixels -> WriterRadiances] :
         LET cs == [k \in Pixels |-> Color_clamp(traced[k], Zero, TraceClampMax)] IN
         /\ sums' = [k \in Pixels |-> Accumulate(sums[k], cs[k])]
         /\ samples' = samples + 1
         /\ passes' = Append(passes, cs)
    /\ outcome' = "write"
    /\ UNCHANGED <<writer, written, image>>
    /\ UNCHANGED notWrite

\* if writer.want_write(samples) { writer.write(samples, &renderer.encode())?; }
\* with EagerWriter::write failing in File::create, write_header or
\* write_all, or not
RenderWrite ==
    /\ outcome = "write"
    /\ EagerWriter_want_write(writer, samples) = "true"
    /\ \E ok \in BOOLEAN :
         /\ written' = Append(written, [samples |-> samples,
                                        pixels |-> Renderer_encode(sums, samples),
                                        ok |-> ok])
         /\ outcome' = AfterWrite(ok)
    /\ UNCHANGED <<writer, renderVars>>
    /\ UNCHANGED notWrite

\* want_write(samples) is false: the next i
RenderSkip ==
    /\ outcome = "write"
    /\ EagerWriter_want_write(writer, samples) = "false"
    /\ outcome' = "trace"
    /\ UNCHANGED <<writer, written, renderVars>>
    /\ UNCHANGED notWrite

\* want_write(samples) panics
RenderPanic ==
    /\ outcome = "write"
    /\ EagerWriter_want_write(writer, samples) = "panic"
    /\ outcome' = "panic"
    /\ UNCHANGED <<writer, written, renderVars>>
    /\ UNCHANGED notWrite

\* the loop is over: Ok(())
RenderReturn ==
    /\ outcome = "trace"
    /\ samples >= writer.samples_per_pixel
    /\ outcome' = "ok"
    /\ UNCHANGED <<writer, written, renderVars>>
    /\ UNCHANGED notWrite

InitWrite == IdleTrace /\ IdleMix /\ IdleBvh /\ IdleFn /\ IdleRender /\ IdlePass /\ IdleWrite
NextWrite ==
    RenderCall \/ RenderPass \/ RenderWrite \/ RenderSkip \/ RenderPanic \/ RenderReturn
SpecWrite == InitWrite /\ [][NextWrite]_vars

\* The bytes encode() returns after n passes, from the colours of the passes.
BytesAfter(n) ==
    FlatMapEncode([k \in Pixels |-> EncodedMean(SumOfPasses(k, n), n)])

Last(s) == s[Len(s)]

\* C24: a render that returns Ok has run exactly samples_per_pixel passes;
\* every call write(n, pixels) is made when pass n is the last pass run, for
\* an n with want_write(n), with pixels the bytes of the sums of exactly the
\* first n passes; the n of the calls increase strictly; after a call that
\* failed the render has ended with the error, no pass was run after it and
\* no call follows it.
C24_WriteAfterEachWantedPass ==
    /\ [](/\ samples = Len(passes)
          /\ outcome = "ok" => samples = writer.samples_per_pixel
          /\ \A c \in 1..Len(written) :
                /\ written[c].samples \in 1..samples
                /\ EagerWriter_want_write(writer, written[c].samples) = "true"
                /\ written[c].pixels = BytesAfter(written[c].samples)
                /\ c > 1 => written[c - 1].samples < written[c].samples
                /\ ~written[c].ok => (c = Len(written) /\ written[c].samples = samples)
          /\ outcome = "err" <=> (written # <<>> /\ ~Last(written).ok))
    /\ [][written' # written =>
            /\ outcome = "write"
            /\ samples' = samples /\ passes' = passes
            /\ written' = Append(written, Last(written'))
            /\ Last(written').samples = samples]_vars
    /\ [][outcome = "write" => outcome' # "write"]_vars
    /\ [][(outcome \in {"err", "ok", "panic"}) =>
            (outcome' = outcome /\ written' = written /\ renderVars' = renderVars)]_vars

\* Of three passes the writer of period 2 wanted the second and the third:
\* the second was written, the write after the third failed.
C24_Witness ==
    /\ outcome = "err"
    /\ writer.samples_per_pixel = 3 /\ writer.period = 2
    /\ samples = 3
    /\ Len(written) = 2
    /\ written[1].samples = 2 /\ written[1].ok
    /\ written[2].samples = 3 /\ ~written[2].ok
    /\ written[1].pixels # written[2].pixels

----------------------------------------------------------------------------
\* Object::hit over object graphs (engine/src/object.rs): SolidObject,
\* VolumeObject, TranslateObject, RotateObject, Objects and GlobalVolume.

\* The values rng.gen::<f64>() gives to the media of a query: 0, the least
\* value of [0, 1), two in the middle, and one close to 1.
LnDraws == {Zero, Q(1, 16), Q(1, 2), Q(15, 16)}

\* f64::ln on the values drawn, to two significant binary digits; ln(0) is
\* -inf
Ln(u) ==
    CASE u = Zero       -> NInf
      [] u = Q(1, 16)   -> Q(-11, 4)
      [] u = Q(1, 2)    -> Q(-11, 16)
      [] u = Q(15, 16)  -> Q(-1, 16)

\* The media of a query: the density of its VolumeObjects, the density and
\* the radius of its GlobalVolume, and the value each of them draws.
Medium(density, free, radius, fog) ==
    [density |-> density, free |-> free,
     radius2 |-> FMul(radius, radius), neg_inv_density |-> FDiv(FNeg(One), density),
     fog |-> fog]

\* 1e-8, the offset of the second search of VolumeObject::hit
HitEpsilon == Q(1, 1000)

\* Option<ObjectHit>: t, the point that scatters, and what scatters there
ObjectMiss == [some |-> FALSE, t |-> Zero, point |-> Vec3_ZERO, by |-> "none"]
ObjectHitAt(t, point, by) == [some |-> TRUE, t |-> t, point |-> point, by |-> by]

\* Object::bounding_box at the instant 0
RECURSIVE Graph_bounding_box(_)
Graph_bounding_box(o) ==
    CASE o.kind \in {"SolidObject", "VolumeObject"} ->
            Shape_bounding_box(o.shape, TimeRange_ZERO)
      [] o.kind = "TranslateObject" ->
            Box3_translate(Graph_bounding_box(o.children[1]), o.offset)
      [] o.kind = "RotateObject" ->
            LET vs == Box3_iter_vertex(Graph_bounding_box(o.children[1])) IN
            FoldUnion(Box3_EMPTY,
                      [j \in 1..8 |->
                          LET q == Vec3_rotate_around(vs[j], o.axis, o.rot) IN
                          Box3_new(q, q)])
      [] o.kind = "GlobalVolume" -> Graph_bounding_box(o.children[1])
      [] o.kind = "Objects" ->
            FoldUnion(Box3_EMPTY,
                      [j \in 1..Len(o.children) |-> Graph_bounding_box(o.children[j])])

\* A lower end that forgets t_min.
ClipEntry_MutUnclipped(t_entry, t_min) == t_entry

\* let t0 = hit0.t.max(t_min)
ClipEntry(t_entry, t_min) == FMax(t_entry, t_min)

\* The value of a let that is computed once: the element of a singleton.
Once(S) == CHOOSE x \in S : TRUE

\* VolumeObject::hit
VolumeObject_hit(o, r, t_min, t_max, m) ==
    Once({
    IF ~hit0.some THEN ObjectMiss
    ELSE Once({
    IF ~hit1.some THEN ObjectMiss
    ELSE LET t0 == ClipEntry(hit0.t, t_min)
             t1 == FMin(hit1.t, t_max)
             inside_distance == FSub(t1, t0)
             hit_distance == FDiv(FNeg(Ln(m.free)), m.density)
             t == FAdd(hit_distance, t0)
         IN IF FGe(t0, t1) THEN ObjectMiss
            ELSE IF FGt(hit_distance, inside_distance) THEN ObjectMiss
            ELSE ObjectHitAt(t, Ray_at(r, t), "volume")
    : hit1 \in {Shape_hit(o.shape, r, FAdd(hit0.t, HitEpsilon), PInf)}})
    : hit0 \in {Shape_hit(o.shape, r, NInf, PInf)}})

\* A fog that scatters wherever the inner object is not hit.
FogOutside_MutNever(point, radius2) == FALSE

\* point.norm() > self.radius2
FogOutside(point, radius2) == FGt(Vec3_norm(point), radius2)

\* Object::hit
RECURSIVE Graph_hit(_, _, _, _, _)
RECURSIVE Objects_fold(_, _, _, _, _, _)
Objects_fold(children, best, r, t_min, t_max, m) ==
    IF Len(children) = 0 THEN best
    ELSE LET t_best == IF best.some THEN best.t ELSE t_max IN
         Once({Objects_fold(Tail(children), next, r, t_min, t_max, m) :
                  next \in {Once({IF h.some THEN h ELSE best :
                                     h \in {Graph_hit(Head(children), r, t_min, t_best, m)}})}})

\* GlobalVolume::hit(ray, t_min, _t_max, rng)
GlobalVolume_hit(o, r, t_min, t_max, m) ==
    LET t == FMul(Ln(m.fog), m.neg_inv_density)
        point == Ray_at(r, t)
    IN Once({IF hit.some THEN hit
             ELSE IF FogOutside(point, m.radius2) THEN ObjectMiss
             ELSE ObjectHitAt(t, point, "fog") :
                hit \in {Graph_hit(o.children[1], r, t_min, t, m)}})

Graph_hit(o, r, t_min, t_max, m) ==
    CASE o.kind = "SolidObject" ->
            LET hit == Shape_hit(o.shape, r, t_min, t_max) IN
            IF hit.some THEN ObjectHitAt(hit.t, hit.point, o.material) ELSE ObjectMiss
      [] o.kind = "VolumeObject" -> VolumeObject_hit(o, r, t_min, t_max, m)
      [] o.kind = "TranslateObject" ->
            Once({IF hit.some THEN [hit EXCEPT !.point = Vec3_add(hit.point, o.offset)]
                  ELSE hit :
                     hit \in {Graph_hit(o.children[1],
                                        Ray_new(Vec3_sub(r.origin, o.offset), r.dir, r.time),
                                        t_min, t_max, m)}})
      [] o.kind = "RotateObject" ->
            Once({IF hit.some
                  THEN [hit EXCEPT !.point = Vec3_rotate_around(hit.point, o.axis, o.rot)]
                  ELSE hit :
                     hit \in {Graph_hit(o.children[1],
                                        Ray_new(Vec3_rotate_around(r.origin, o.axis,
                                                                   RotInverse(o.rot)),
                                                Vec3_rotate_around(r.dir, o.axis,
                                                                   RotInverse(o.rot)),
                                                r.time),
                                        t_min, t_max, m)}})
      [] o.kind = "Objects" ->
            IF ~Ray_intersects(r, Graph_bounding_box(o), t_min, t_max) THEN ObjectMiss
            ELSE Objects_fold(o.children, ObjectMiss, r, t_min, t_max, m)
      [] o.kind = "GlobalVolume" -> GlobalVolume_hit(o, r, t_min, t_max, m)

\* The objects that are hit: a solid sphere, a solid rectangle, a volume in
\* a sphere and a volume in a block; each of them translated, rotated and
\* in fog; two of them in one Objects node, and that node in fog.
HitLeaves ==
    {SolidObject_new(Sphere_new(<<F(3), Zero, Zero>>, One), "Lambertian"),
     SolidObject_new(Rectangle_new("X", One, Zero, F(2), Zero, F(2)), "Metal"),
     VolumeObject_new(Sphere_new(<<F(3), Zero, Zero>>, One)),
     VolumeObject_new(Block_new(Box3_new(<<Zero, Zero, Zero>>, <<One, F(2), F(2)>>)))}

HitGroups ==
    {Objects_of(<<SolidObject_new(Sphere_new(<<F(3), Zero, Zero>>, One), "Lambertian"),
                  SolidObject_new(Rectangle_new("X", One, Zero, F(2), Zero, F(2)), "Metal")>>),
     Objects_of(<<VolumeObject_new(Sphere_new(<<F(3), Zero, Zero>>, One)),
                  SolidObject_new(Rectangle_new("X", F(2), FNeg(One), One, FNeg(One), One),
                                  "Metal")>>)}

HitGraphs ==
    HitLeaves \cup HitGroups
    \cup {TranslateObject_new(o) : o \in HitLeaves}
    \cup {RotateObject_new(o) : o \in HitLeaves}
    \cup {GlobalVolume_new(o) : o \in HitLeaves \cup HitGroups}
    \cup {Objects_of(<<GlobalVolume_new(o),
                       SolidObject_new(Rectangle_new("X", F(2), FNeg(One), One, FNeg(One), One),
                                       "Metal")>>) : o \in HitLeaves}

Media ==
    {Medium(density, free, F(4), fog) :
        density \in {Q(1, 4), F(2)}, free \in LnDraws, fog \in LnDraws}

\* Vec3::abs
Vec3_abs(v) == FSqrt(Vec3_norm(v))

\* VolumeObject::hit of rust/src/object.rs, whose rays are not normalised:
\* the distances are lengths, converted with ray.dir.abs().
VolumeObject_hit_rust(o, r, t_min, t_max, m) ==
    Once({
    IF ~hit0.some THEN ObjectMiss
    ELSE Once({
    IF ~hit1.some THEN ObjectMiss
    ELSE LET t0 == ClipEntry(hit0.t, t_min)
             t1 == FMin(hit1.t, t_max)
             inside_distance == FMul(FSub(t1, t0), Vec3_abs(r.dir))
             hit_distance == FDiv(FNeg(Ln(m.free)), m.density)
             t == FAdd(FDiv(hit_distance, Vec3_abs(r.dir)), t0)
         IN IF FGe(t0, t1) THEN ObjectMiss
            ELSE IF FGt(hit_distance, inside_distance) THEN ObjectMiss
            ELSE ObjectHitAt(t, Ray_at(r, t), "volume")
    : hit1 \in {Shape_hit(o.shape, r, FAdd(hit0.t, HitEpsilon), PInf)}})
    : hit0 \in {Shape_hit(o.shape, r, NInf, PInf)}})

\* Directions of the rays of rust/src: Ray::new(origin, target - origin),
\* of any length; the lengths of these are 1, 2, 1/2 and 5.
LongDirs ==
    {<<One, Zero, Zero>>, <<F(2), Zero, Zero>>, <<Zero, Q(1, 2), Zero>>,
     <<F(3), F(4), Zero>>}

\* The volume of the rust/src calls: a block, whose faces are hit by rays of
\* any length.
LongVolumes ==
    {VolumeObject_new(Block_new(Box3_new(<<Zero, Zero, Zero>>, <<F(4), F(2), F(2)>>)))}

\* object.hit(ray, t_min, t_max, rng)
ObjectHit ==
    /\ fn = "none"
    /\ \E o \in HitGraphs, origin \in HitOrigins, dir \in RayDirs, iv \in Intervals,
          m \in Media :
         LET r == Ray_new(origin, dir, Zero) IN
         /\ fn' = "Object::hit"
         /\ args' = <<o, r, iv[1], iv[2], m>>
         /\ out' = <<Graph_hit(o, r, iv[1], iv[2], m)>>
    /\ UNCHANGED notFn

\* volume.hit(ray, t_min, t_max, rng) of rust/src/object.rs
LongVolumeHit ==
    /\ fn = "none"
    /\ \E o \in LongVolumes, origin \in HitOrigins, dir \in LongDirs, iv \in Intervals,
          m \in Media :
         LET r == Ray_new(origin, dir, Zero) IN
         /\ fn' = "rust::VolumeObject::hit"
         /\ args' = <<o, r, iv[1], iv[2], m>>
         /\ out' = <<VolumeObject_hit_rust(o, r, iv[1], iv[2], m)>>
    /\ UNCHANGED notFn

InitObject == IdleTrace /\ IdleMix /\ IdleBvh /\ IdleFn /\ IdleRender /\ IdlePass /\ IdleWrite
NextObject == ObjectHit \/ LongVolumeHit
SpecObject == InitObject /\ [][NextObject]_vars

\* C26 as stated: every hit an object returns has t_min <= t <= t_max.
C26_HitInsideInterval ==
    (fn = "Object::hit" /\ out[1].some) =>
        (FLe(args[3], out[1].t) /\ FLe(out[1].t, args[4]))

\* Whether a graph holds a GlobalVolume.
RECURSIVE HasGlobalVolume(_)
HasGlobalVolume(o) ==
    \/ o.kind = "GlobalVolume"
    \/ \E j \in 1..Len(o.children) : HasGlobalVolume(o.children[j])

\* What the code keeps: the hits of the graphs without a GlobalVolume are
\* inside the interval.
HitInsideIntervalWithoutFog ==
    (fn = "Object::hit" /\ out[1].some /\ ~HasGlobalVolume(args[1])) =>
        (FLe(args[3], out[1].t) /\ FLe(out[1].t, args[4]))

\* The two crossings of the boundary of a volume along the ray of a call, as
\* the shape reports them: the first over the whole line, the second behind
\* the first.
VolumeEntry == Shape_hit(args[1].shape, args[2], NInf, PInf)
VolumeExit == Shape_hit(args[1].shape, args[2], FAdd(VolumeEntry.t, HitEpsilon), PInf)

\* The clipped interval of the call and the free-flight distance drawn.
VolumeLo == FMax(VolumeEntry.t, args[3])
VolumeHi == FMin(VolumeExit.t, args[4])
VolumeFlight == FDiv(FNeg(Ln(args[5].free)), args[5].density)

\* The length of the ray's direction: 1 in engine/src, any in rust/src.
VolumeSpeed == IF fn = "rust::VolumeObject::hit" THEN Vec3_abs(args[2].dir) ELSE One

VolumeCalled ==
    /\ fn \in {"Object::hit", "rust::VolumeObject::hit"}
    /\ args[1].kind = "VolumeObject"

\* C27 as stated: VolumeObject::hit returns no hit when the boundary has
\* fewer than two crossings, when the clipped interval [max(t_entry, t_min),
\* min(t_exit, t_max)] is empty, or when the free-flight distance exceeds its
\* length; otherwise it scatters at t = max(t_entry, t_min) + distance, which
\* lies inside that interval.
C27_VolumeScattersAtDistance ==
    VolumeCalled =>
        IF ~VolumeEntry.some \/ ~VolumeExit.some
        THEN ~out[1].some
        ELSE IF FGt(VolumeLo, VolumeHi) \/ FGt(VolumeFlight, FSub(VolumeHi, VolumeLo))
        THEN ~out[1].some
        ELSE /\ out[1].some
             /\ out[1].t = FAdd(VolumeLo, VolumeFlight)
             /\ FLe(VolumeLo, out[1].t) /\ FLe(out[1].t, VolumeHi)

\* C27 amended: the same with the distance measured along the ray: the
\* length of the clipped interval is (hi - lo) * |dir| and the ray scatters
\* at t = max(t_entry, t_min) + distance / |dir|; in engine/src |dir| = 1.
C27_VolumeScattersInside ==
    VolumeCalled =>
        IF ~VolumeEntry.some \/ ~VolumeExit.some
        THEN ~out[1].some
        ELSE IF \/ FGt(VolumeLo, VolumeHi)
                \/ FGt(VolumeFlight, FMul(FSub(VolumeHi, VolumeLo), VolumeSpeed))
        THEN ~out[1].some
        ELSE /\ out[1].some
             /\ out[1].t = FAdd(VolumeLo, FDiv(VolumeFlight, VolumeSpeed))
             /\ FLe(VolumeLo, out[1].t) /\ FLe(out[1].t, VolumeHi)
             /\ out[1].point = Ray_at(args[2], out[1].t)

\* C27 witness: a ray of length 2 that starts inside the volume scatters
\* behind t_min, before the exit, at half the distance drawn.
C27_Witness ==
    /\ fn = "rust::VolumeObject::hit"
    /\ VolumeSpeed = F(2)
    /\ out[1].some
    /\ FLt(VolumeEntry.t, args[3])
    /\ out[1].t = FAdd(args[3], FDiv(VolumeFlight, F(2)))
    /\ FLt(out[1].t, VolumeHi)

\* A ray of engine/src that starts inside the volume scatters behind t_min,
\* before the exit.
UnitRayScattersInside ==
    /\ fn = "Object::hit" /\ args[1].kind = "VolumeObject"
    /\ out[1].some
    /\ FLt(VolumeEntry.t, args[3])
    /\ out[1].t = FAdd(args[3], VolumeFlight)
    /\ FLt(out[1].t, VolumeHi)

\* The fog distance a call of GlobalVolume::hit draws, the point of the ray
\* there, and the nearest hit of the inner object behind t_min.
FogDistance == FMul(Ln(args[5].fog), FDiv(FNeg(One), args[5].density))
FogPoint == Ray_at(args[2], FogDistance)
InnerNearest == Graph_hit(args[1].children[1], args[2], args[3], PInf, args[5])
InnerBeforeFog == InnerNearest.some /\ FLe(InnerNearest.t, FogDistance)

\* C28 as stated: GlobalVolume::hit returns the hit of the inner object
\* whenever the inner object has a hit with t in [t_min, t_fog]; otherwise a
\* fog scatter at t_fog if ray.at(t_fog) is within the radius of the origin,
\* and no hit otherwise.
C28_FogBehindInnerHit ==
    (fn = "Object::hit" /\ args[1].kind = "GlobalVolume") =>
        IF InnerBeforeFog
        THEN out[1] = InnerNearest
        ELSE IF FLe(Vec3_norm(FogPoint), args[5].radius2)
        THEN out[1] = ObjectHitAt(FogDistance, FogPoint, "fog")
        ELSE ~out[1].some

\* What the code keeps: the same for every draw that gives a finite fog
\* distance.
FogBehindInnerHitOfFiniteDraw ==
    (fn = "Object::hit" /\ args[1].kind = "GlobalVolume" /\ IsFinite(FogDistance)) =>
        IF InnerBeforeFog
        THEN out[1] = InnerNearest
        ELSE IF FLe(Vec3_norm(FogPoint), args[5].radius2)
        THEN out[1] = ObjectHitAt(FogDistance, FogPoint, "fog")
        ELSE ~out[1].some

\* The draw 0 along a ray with a zero component: a fog hit at an infinite
\* distance, at a point that is not a number.
FogAtInfinity ==
    /\ fn = "Object::hit" /\ args[1].kind = "GlobalVolume"
    /\ out[1].some /\ out[1].by = "fog"
    /\ out[1].t = PInf
    /\ \E c \in 1..3 : IsNaN(out[1].point[c])

-----------------------------------------------------------------------------
(*     The constant material sampler in trace_ray                          *)

\* The scattering event has a material sampler whose constant() is Some
\* (Dielectric, or Metal with fuzz 0).
ConstantMaterial ==
    /\ bounce.event \in {"scatter", "zero", "panic"}
    /\ bounce.scatter_sampler.kind \in {"Constant", "Sphere"}
    /\ constant(bounce.scatter_sampler).tag = "Some"

\* The important shape gave a sampler whose constant() is Some.
ConstantImportant ==
    /\ IsSome(bounce.important_sampler)
    /\ constant(bounce.important_sampler).tag = "Some"

\* C29: when the material sampler is constant and the important-shape
\* sampler is absent or not constant, trace_ray continues along exactly the
\* material's direction with weight exactly 1 and draws no direction; when
\* both are constant the trace panics.
C29_ConstantMaterialIsFollowed ==
    ConstantMaterial =>
        IF ConstantImportant
        THEN bounce.event = "panic" /\ pc = "panic"
        ELSE /\ bounce.event = "scatter"
             /\ bounce.new_dir = bounce.scatter_sampler.dir
             /\ bounce.weight = One
             /\ ~bounce.sampled
             /\ ray = bounce.scatter_sampler.dir
             /\ pc = "call"
             /\ stack # <<>> /\ stack[Len(stack)].weight = One

\* C29 witness: a Dielectric hit in a scene whose important shape gives a
\* stochastic sampler; the trace went on along the refracted direction.
C29_Witness ==
    /\ ConstantMaterial
    /\ bounce.scatter_sampler.kind = "Constant"
    /\ IsSome(bounce.important_sampler)
    /\ constant(bounce.important_sampler).tag = "None"
    /\ bounce.event = "scatter"
    /\ bounce.weight = One
    /\ ray = bounce.scatter_sampler.dir

-----------------------------------------------------------------------------
(*     Axis::next and Vec3::rotate_axes (rust/src/geom.rs)                 *)

\* Largest number of turns of the loop of rotate_axes that is explored.
MaxTurns == 3

\* The vectors that are rotated; the components of each are distinct.
AxisVecs ==
    {<<One, F(2), F(3)>>, <<Zero, FNeg(One), Q(1, 2)>>, <<F(7), Q(1, 3), FNeg(F(2))>>,
     <<PInf, Zero, NInf>>}

\* self.rotate_axes(from, to): the arguments are args, the mutable from and
\* to and the number of turns of the loop so far are out.
AxesCall ==
    /\ fn = "none"
    /\ \E v \in AxisVecs, i \in 1..3, j \in 1..3 :
         LET from == Axes[i]
             to == Axes[j]
         IN
         /\ fn' = "rotate_axes"
         /\ args' = <<v, from, to, v>>
         /\ out' = <<from, to, 0>>
    /\ UNCHANGED notFn

\* while from != Axis::X { from = from.next(); to = to.next(); }
AxesTurn ==
    /\ fn \in {"rotate_axes", "rotate_back"}
    /\ out[1] # "X"
    /\ out[3] < MaxTurns
    /\ out' = <<Axis_next(out[1]), Axis_next(out[2]), out[3] + 1>>
    /\ UNCHANGED <<fn, args>>
    /\ UNCHANGED notFn

\* match to { .. }: the call returns.
AxesMatch ==
    /\ fn \in {"rotate_axes", "rotate_back"}
    /\ out[1] = "X"
    /\ fn' = IF fn = "rotate_axes" THEN "rotated" ELSE "restored"
    /\ out' = <<Vec3_rotate_to(args[1], out[2])>>
    /\ UNCHANGED args
    /\ UNCHANGED notFn

\* r.rotate_axes(to, from) on the vector the first call returned; args[4]
\* keeps the vector the first call was given.
AxesBack ==
    /\ fn = "rotated"
    /\ fn' = "rotate_back"
    /\ args' = <<out[1], args[3], args[2], args[4]>>
    /\ out' = <<args[3], args[2], 0>>
    /\ UNCHANGED notFn

InitAxes == IdleTrace /\ IdleMix /\ IdleBvh /\ IdleFn /\ IdleRender /\ IdlePass /\ IdleWrite
NextAxes == AxesCall \/ AxesTurn \/ AxesMatch \/ AxesBack
SpecAxes == InitAxes /\ [][NextAxes]_vars

Axis_next2(axis) == Axis_next(Axis_next(axis))

\* C30: Axis::next is a 3-cycle that reaches X, Y and Z; the loop of
\* rotate_axes ends within two turns for every pair of axes; the vector
\* returned has the `from` component at the `to` position and the next() and
\* next().next() components along with it; and rotate_axes(to, from) after
\* rotate_axes(from, to) returns the original vector.
C30_RotateAxesIsCyclicShift ==
    /\ \A a \in {"X", "Y", "Z"} :
         /\ Axis_next(Axis_next2(a)) = a
         /\ {a, Axis_next(a), Axis_next2(a)} = {"X", "Y", "Z"}
    /\ fn \in {"rotate_axes", "rotate_back"} =>
         /\ out[3] <= 2
         /\ out[1] # "X" => out[3] < 2
    /\ fn \in {"rotated", "restored"} =>
         /\ Vec3_get(out[1], args[3]) = Vec3_get(args[1], args[2])
         /\ Vec3_get(out[1], Axis_next(args[3])) = Vec3_get(args[1], Axis_next(args[2]))
         /\ Vec3_get(out[1], Axis_next2(args[3])) = Vec3_get(args[1], Axis_next2(args[2]))
    /\ fn = "restored" => out[1] = args[4]

\* C30 witness: rotate_axes(Z, Y) turned its loop once and moved the z
\* component to the y position, and rotate_axes(Y, Z) gave the vector back.
C30_Witness ==
    /\ fn = "restored"
    /\ args[2] = "Y" /\ args[3] = "Z"
    /\ args[4] = <<One, F(2), F(3)>>
    /\ args[1] = <<F(2), F(3), One>>
    /\ out[1] = <<One, F(2), F(3)>>

=============================================================================
